---- MODULE Spec2Model ----
(***************************************************************************)
(* A model of conventionalrp's two core engines:                           *)
(*   - the generic condition/action rule engine (core/rules.py), and       *)
(*   - the recursive content segmenter of the log parser (core/parser.py). *)
(*                                                                         *)
(* Python objects are modelled with their sharing: a record is a mapping   *)
(* from field names to values, a value is a literal or a reference into a  *)
(* heap of list objects, and dict.copy() copies the mapping only.          *)
(* Text is a sequence of one-character strings, " " being whitespace.      *)
(***************************************************************************)
EXTENDS Integers, Sequences, FiniteSets, TLC

VARIABLES
    rules,      \* RuleEngine.rules: the list of Rule objects
    sorted,     \* RuleEngine._sorted
    op,         \* the operation that ran last
    data,       \* the record the caller passed to the last call, as the caller holds it
    heap0,      \* the list objects reachable from data when the call began
    heap,       \* the list objects when the call returned
    ret,        \* the record the last process call returned
    applyAll,   \* the apply_all argument of the last process call
    visited,    \* the rules whose conditions the last call evaluated, in order
    applied,    \* the rules the last call applied, in order
    seen,       \* the loop's record and heap when each visited rule was reached, in order
    found,      \* the list find_matching_rules returned
    resorts,    \* how often _ensure_sorted has sorted the list since it was last empty, up to two
    batch,      \* the records passed to the last process_batch call, as the caller holds them
    batchRet,   \* the list the last process_batch call returned
    contentRules, \* Parser.rules["content"]: the content rules, in declaration order
    line,       \* the text passed to _parse_line_content
    segments,   \* the list _parse_line_content returned
    pop,        \* the parser operation that ran last
    work,       \* the segmentation in progress: segments emitted and calls still to run
    calls,      \* the number of _parse_line_content invocations run so far
    metadataRule, \* Parser.rules["metadata"] as load_rules stored it
    logFile,    \* the lines of the file passed to parse_log
    parsed,     \* what parse_log did: the entries it returned, or that it raised
    ruleObj,    \* a Rule under construction or constructed: its name, condition, action
    ruleData,   \* the record a caller holds to pass to the rule, and its list objects
    ruleOp,     \* the operation on the rule that ran last
    ruleOut,    \* what the last matches call did: "true", "false" or "raise"
    ruleResults, \* what the successive apply calls returned, each applied to the last result
    procConfig, \* the "rules" list of the configuration passed to Processor(rules)
    procRules,  \* Processor.rule_engine.rules
    procSorted, \* Processor.rule_engine._sorted
    procHooks,  \* Processor.custom_processors
    procOp,     \* the Processor operation that ran last
    procTokens, \* the tokens passed to the last process_tokens / apply_rules call
    procAll,    \* the apply_all_rules argument of the last call
    procOut,    \* the tokens the last call returned
    procRaised, \* for each token of the last call, whether process_single_token raised
    concRules,  \* RuleEngine.rules of an engine shared by threads, as a reader finds it
    concSorted, \* RuleEngine._sorted of that engine
    concRules0, \* the rules of that engine, in the order in which they were added
    threads,    \* for each thread, its process call: position, arguments, locals, result
    plugins,    \* PluginManager.plugins: the registered Plugin object under each name
    enabled,    \* Plugin.enabled of each Plugin object
    callbacks,  \* the on_enable / on_disable calls each Plugin object received, in order
    plugOp      \* the PluginManager operation that ran last

evars == <<rules, sorted, op, data, heap0, heap, ret, applyAll, visited, applied, seen, found, resorts,
          batch, batchRet>>
pvars == <<contentRules, line, segments, pop>>
rvars == <<work, calls>>
lvars == <<metadataRule, logFile, parsed>>
uvars == <<ruleObj, ruleData, ruleOp, ruleOut, ruleResults>>
kvars == <<procConfig, procRules, procSorted, procHooks, procOp, procTokens, procAll, procOut, procRaised>>
cvars == <<concRules, concSorted, concRules0, threads>>
gvars == <<plugins, enabled, callbacks, plugOp>>
xvars == <<lvars, uvars, kvars, cvars, gvars>>
vars == <<evars, pvars, rvars, xvars>>

\* The parts of the state an operation on another object leaves as constructed.
NoMetadataRule == [form |-> "absent", patterns |-> <<>>, groups |-> <<>>, rules |-> <<>>]
NotParsed == [raised |-> FALSE, entries |-> <<>>]
LogIdle == metadataRule = NoMetadataRule /\ logFile = <<>> /\ parsed = NotParsed
RuleIdle ==
    ruleObj = <<>> /\ ruleData = <<>> /\ ruleOp = "init" /\ ruleOut = "" /\ ruleResults = <<>>
ProcIdle ==
    /\ procConfig = <<>> /\ procRules = <<>> /\ procSorted = FALSE /\ procHooks = <<>>
    /\ procOp = "init" /\ procTokens = <<>> /\ procAll = FALSE /\ procOut = <<>>
    /\ procRaised = <<>>
ConcIdle == concRules = <<>> /\ concSorted = FALSE /\ concRules0 = <<>> /\ threads = <<>>
PlugIdle == plugins = <<>> /\ enabled = <<>> /\ callbacks = <<>> /\ plugOp = "init"
ExtIdle == LogIdle /\ RuleIdle /\ ProcIdle /\ ConcIdle /\ PlugIdle

(***************************************************************************)
(* Bounds of the model.                                                    *)
(***************************************************************************)
MaxRules == 3
MaxContentRules == 2
MaxLen == 4

(***************************************************************************)
(* Values and dictionaries.                                                *)
(***************************************************************************)
Lit(s) == [kind |-> "lit", lit |-> s]
Ref(n) == [kind |-> "ref", ref |-> n]
NoneVal == [kind |-> "none"]

EmptyDict == [k \in {} |-> NoneVal]
Has(d, k) == k \in DOMAIN d
Get(d, k) == IF Has(d, k) THEN d[k] ELSE NoneVal
Put(d, k, v) == [x \in (DOMAIN d) \cup {k} |-> IF x = k THEN v ELSE d[x]]
Del(d, k) == [x \in (DOMAIN d) \ {k} |-> d[x]]

\* What a caller can observe of a record: every list replaced by its items.
Deep(d, h) ==
    [k \in DOMAIN d |->
        IF d[k].kind = "ref" THEN [kind |-> "list", items |-> h[d[k].ref]] ELSE d[k]]

Contains(s, x) == \E i \in 1..Len(s) : s[i] = x

(***************************************************************************)
(* Text (Python str): slices, strip, and the search of a pattern.          *)
(***************************************************************************)
\* s[a:b], with Python's 0-based offsets
Slice(s, a, b) == SubSeq(s, a + 1, b)

RECURSIVE LStrip(_)
LStrip(s) == IF s # <<>> /\ Head(s) = " " THEN LStrip(Tail(s)) ELSE s

RECURSIVE RStrip(_)
RStrip(s) == IF s # <<>> /\ s[Len(s)] = " " THEN RStrip(SubSeq(s, 1, Len(s) - 1)) ELSE s

\* str.strip()
Strip(s) == RStrip(LStrip(s))

\* A pattern is a literal with capture groups: group k spans the characters
\* from..to of the match (1-based), <<0, 0>> being a group that takes no part
\* in the match.
Pattern(lit, groups) == [lit |-> lit, groups |-> groups]

RECURSIVE FindFrom(_, _, _)
FindFrom(lit, text, i) ==
    IF i + Len(lit) > Len(text) THEN -1
    ELSE IF Slice(text, i, i + Len(lit)) = lit THEN i
    ELSE FindFrom(lit, text, i + 1)

NoGroup == [some |-> FALSE, text |-> <<>>]
NoMatch == [found |-> FALSE, start |-> 0, end |-> 0, groups |-> <<>>]

\* re.search(pattern, text): the leftmost match, with match.start(), match.end()
\* and match.groups()
Search(p, text) ==
    LET s == FindFrom(p.lit, text, 0) IN
    IF s < 0 THEN NoMatch
    ELSE [found |-> TRUE, start |-> s, end |-> s + Len(p.lit),
          groups |-> [k \in 1..Len(p.groups) |->
                        IF p.groups[k][1] = 0 THEN NoGroup
                        ELSE [some |-> TRUE,
                              text |-> SubSeq(text, s + p.groups[k][1], s + p.groups[k][2])]]]

(***************************************************************************)
(* Rule (rules.py, class Rule).                                            *)
(***************************************************************************)
\* A condition of a field: a literal to compare with, or a dict with "type",
\* "value" (items when it is a list) and "pattern"; the empty pattern stands
\* for a missing or empty "pattern".
NoPattern == Pattern(<<>>, <<>>)
CondLiteral(v) == [kind |-> "literal", value |-> v, type |-> "", items |-> <<>>,
                   pattern |-> NoPattern]
CondDict(t, v, l) == [kind |-> "dict", value |-> v, type |-> t, items |-> l,
                      pattern |-> NoPattern]
CondMatches(p) == [CondDict("matches", NoneVal, <<>>) EXCEPT !.pattern = p]

NoAction == [isdict |-> FALSE, type |-> "", field |-> "", value |-> NoneVal, tag |-> "",
             source |-> "", target |-> "", function |-> ""]
SetField(f, v) == [NoAction EXCEPT !.isdict = TRUE, !.type = "set_field", !.field = f, !.value = v]
AddField(f, v) == [NoAction EXCEPT !.isdict = TRUE, !.type = "add_field", !.field = f, !.value = v]
RemoveField(f) == [NoAction EXCEPT !.isdict = TRUE, !.type = "remove_field", !.field = f]
Transform(f, fn) == [NoAction EXCEPT !.isdict = TRUE, !.type = "transform", !.field = f, !.function = fn]
AddTag(t) == [NoAction EXCEPT !.isdict = TRUE, !.type = "add_tag", !.tag = t]
CopyField(s, t) == [NoAction EXCEPT !.isdict = TRUE, !.type = "copy_field", !.source = s, !.target = t]

\* Rule.__init__: id stands for the identity of the constructed object.
NewRule(name, condition, action, priority) ==
    [name |-> name, condition |-> condition, action |-> action, priority |-> priority, id |-> 0]

\* bool(value), str(value) and float(value) of a field value or operand: a str
\* (an atom of the pools, or a text given by its characters), a number or None.
Text(chars) == [kind |-> "text", chars |-> chars]
Num(n) == [kind |-> "num", num |-> n]

Truthy(v) ==
    CASE v.kind = "none" -> FALSE
      [] v.kind = "text" -> v.chars # <<>>
      [] v.kind = "num" -> v.num # 0
      [] OTHER -> TRUE

IsStr(v) == v.kind \in {"text", "lit"}

Digits == <<"0", "1", "2", "3", "4", "5", "6", "7", "8", "9">>
DigitOf(c) == (CHOOSE i \in 1..Len(Digits) : Digits[i] = c) - 1

RECURSIVE NumStr(_)
NumStr(n) == IF n < 10 THEN <<Digits[n + 1]>> ELSE NumStr(n \div 10) \o <<Digits[(n % 10) + 1]>>

Str(v) ==
    CASE v.kind = "text" -> v.chars
      [] v.kind = "lit" -> <<v.lit>>
      [] v.kind = "num" -> NumStr(v.num)
      [] v.kind = "none" -> <<"N", "o", "n", "e">>

RECURSIVE Number(_, _)
Number(chars, acc) ==
    IF chars = <<>> THEN acc ELSE Number(Tail(chars), 10 * acc + DigitOf(Head(chars)))

\* float(v): the number, or the exception it raises
Float(v) ==
    CASE v.kind = "num" -> [error |-> "", num |-> v.num]
      [] v.kind = "text" ->
            LET t == Strip(v.chars) IN
            IF t # <<>> /\ \A i \in 1..Len(t) : Contains(Digits, t[i])
            THEN [error |-> "", num |-> Number(t, 0)]
            ELSE [error |-> "ValueError", num |-> 0]
      [] v.kind = "lit" -> [error |-> "ValueError", num |-> 0]
      [] OTHER -> [error |-> "TypeError", num |-> 0]

CaughtByCastValueErrorOnly == {"ValueError"}

\* except (ValueError, TypeError): return False
CaughtByCast == {"ValueError", "TypeError"}

\* try: return float(value) > float(expected_value) (less_than: <), value first
CastCompare(value, expected, greater) ==
    LET fv == Float(value)
        fe == Float(expected)
        error == IF fv.error # "" THEN fv.error ELSE fe.error
    IN  IF error # "" THEN (IF error \in CaughtByCast THEN "false" ELSE error)
        ELSE IF (IF greater THEN fv.num > fe.num ELSE fv.num < fe.num) THEN "true"
        ELSE "false"

\* Rule._check_field_condition: "true" or "false" as it returns, or the
\* exception that leaves it
CheckFieldCondition(d, field, condition) ==
    LET value == Get(d, field)
        expected == condition.value
        Returns(b) == IF b THEN "true" ELSE "false"
        \* "X if value else False", X taking a str operand
        OnText(Holds(_, _)) ==
            IF ~Truthy(value) THEN "false"
            ELSE IF ~IsStr(expected) THEN "TypeError"
            ELSE Returns(Holds(Str(expected), Str(value)))
        In(e, t) == FindFrom(e, t, 0) >= 0
        StartsWith(e, t) == Len(e) <= Len(t) /\ SubSeq(t, 1, Len(e)) = e
        EndsWith(e, t) == Len(e) <= Len(t) /\ SubSeq(t, Len(t) - Len(e) + 1, Len(t)) = e
    IN  IF condition.kind # "dict" THEN Returns(value = condition.value)
        ELSE CASE condition.type = "equals" -> Returns(value = expected)
               [] condition.type = "contains" -> OnText(In)
               [] condition.type = "matches" ->
                    IF condition.pattern # NoPattern
                    THEN IF Truthy(value)
                         THEN Returns(Search(condition.pattern, Str(value)).found)
                         ELSE "false"
                    ELSE "false"
               [] condition.type = "starts_with" -> OnText(StartsWith)
               [] condition.type = "ends_with" -> OnText(EndsWith)
               [] condition.type = "in_list" -> Returns(Contains(condition.items, value))
               [] condition.type = "greater_than" -> CastCompare(value, expected, TRUE)
               [] condition.type = "less_than" -> CastCompare(value, expected, FALSE)
               [] OTHER -> "false"

\* Rule.matches returns True
Matches(rule, d) ==
    \A field \in DOMAIN rule.condition :
        CheckFieldCondition(d, field, rule.condition[field]) = "true"

\* Rule.matches raises: a field's check raises and no field's check returns
\* False (a condition of the pools with a check that raises has no other field)
MatchesRaises(rule, d) ==
    /\ \E field \in DOMAIN rule.condition :
            CheckFieldCondition(d, field, rule.condition[field]) \notin {"true", "false"}
    /\ \A field \in DOMAIN rule.condition :
            CheckFieldCondition(d, field, rule.condition[field]) # "false"

UpperTable ==
    [s \in {"test", "chat", "TEST", "CHAT"} |->
        CASE s = "test" -> "TEST" [] s = "chat" -> "CHAT" [] OTHER -> s]

Lower == <<"a", "b", "e", "n", "o">>
Capital == <<"A", "B", "E", "N", "O">>
IndexIn(s, c) == CHOOSE i \in 1..Len(s) : s[i] = c

UpperCharSwapped(c) ==
    IF Contains(Lower, c) THEN <<Capital[IndexIn(Lower, c)]>>
    ELSE IF Contains(Capital, c) THEN <<Lower[IndexIn(Capital, c)]>>
    ELSE <<c>>

\* str.upper() of one character: a lower-case letter becomes its capital,
\* "ß" becomes "SS", any other character stays
UpperChar(c) ==
    IF Contains(Lower, c) THEN <<Capital[IndexIn(Lower, c)]>>
    ELSE IF c = "ß" THEN <<"S", "S">>
    ELSE <<c>>

RECURSIVE Upper(_)
Upper(chars) == IF chars = <<>> THEN <<>> ELSE UpperChar(Head(chars)) \o Upper(Tail(chars))

\* str.lower() of one character
LowerChar(c) == IF Contains(Capital, c) THEN Lower[IndexIn(Capital, c)] ELSE c

LowerTable ==
    [s \in {"test", "chat", "TEST", "CHAT"} |->
        CASE s = "TEST" -> "test" [] s = "CHAT" -> "chat" [] OTHER -> s]

\* int(x), on the whole numbers and the texts of the pools what float(x) is
IntOf(v) == Float(v)

TransformFunctions == {"upper", "lower", "strip", "int", "float", "len"}

\* transforms[func_name](value): the value it returns, or the exception it
\* raises.  The atoms of the pools are four characters without blanks; the
\* fields the transform actions of the pools name hold no list.
CallTransform(funcName, value) ==
    LET Returns(v) == [error |-> "", value |-> v]
        OnStr(F(_), table) ==
            IF value.kind = "lit"
            THEN Returns(IF value.lit \in DOMAIN table THEN Lit(table[value.lit]) ELSE value)
            ELSE IF value.kind \in {"text", "num", "none"} THEN Returns(Text(F(Str(value))))
            ELSE Returns(value)
        LowerOf(chars) == [i \in 1..Len(chars) |-> LowerChar(chars[i])]
        Cast(c) == IF c.error # "" THEN [error |-> c.error, value |-> value]
                   ELSE Returns(Num(c.num))
    IN  CASE funcName = "upper" -> OnStr(Upper, UpperTable)
          [] funcName = "lower" -> OnStr(LowerOf, LowerTable)
          [] funcName = "strip" -> OnStr(Strip, [x \in {} |-> x])
          [] funcName = "int" -> Cast(IntOf(value))
          [] funcName = "float" -> Cast(Float(value))
          [] funcName = "len" ->
                Returns(IF value.kind = "text" THEN Num(Len(value.chars))
                        ELSE IF value.kind = "lit" THEN Num(4)
                        ELSE Num(0))

TransformFailedToNone(value) == NoneVal

\* except Exception: return value
TransformFailed(value) == value

\* Rule._apply_transform: a function name that is not in the table leaves the
\* value as it is
ApplyTransform(value, funcName) ==
    IF funcName \in TransformFunctions
    THEN LET c == CallTransform(funcName, value)
         IN  IF c.error # "" THEN TransformFailed(value) ELSE c.value
    ELSE value

AddFieldWritesAlways(result, field) == field # ""

\* add_field: if field and field not in result
AddFieldWrites(result, field) == field # "" /\ ~Has(result, field)

\* Rule.apply raises: add_tag finds under "tags" a value that is not a list.
\* "tag not in value" is a TypeError on None and on a number; on a str it is
\* the substring test (the tags of the pools are atoms or single characters),
\* and a str that does not hold the tag has no append().
ApplyRaises(rule, d) ==
    LET a == rule.action IN
    /\ a.isdict /\ a.type = "add_tag" /\ a.tag # "" /\ Has(d, "tags")
    /\ d["tags"].kind # "ref"
    /\ IsStr(d["tags"]) => FindFrom(<<a.tag>>, Str(d["tags"]), 0) < 0

\* Rule.apply: the returned record and the heap it leaves (the record as it
\* was passed when the call raises).
Apply(rule, d, h) ==
    LET a == rule.action
        result == d
    IN  IF ~a.isdict THEN [result |-> result, heap |-> h]
        ELSE CASE a.type = "set_field" ->
                    [result |-> IF a.field # "" THEN Put(result, a.field, a.value) ELSE result,
                     heap |-> h]
               [] a.type = "add_field" ->
                    [result |-> IF AddFieldWrites(result, a.field)
                                THEN Put(result, a.field, a.value) ELSE result,
                     heap |-> h]
               [] a.type = "remove_field" ->
                    [result |-> IF a.field # "" /\ Has(result, a.field)
                                THEN Del(result, a.field) ELSE result,
                     heap |-> h]
               [] a.type = "transform" ->
                    [result |-> IF a.field # "" /\ Has(result, a.field) /\ a.function # ""
                                THEN Put(result, a.field, ApplyTransform(result[a.field], a.function))
                                ELSE result,
                     heap |-> h]
               [] a.type = "add_tag" ->
                    IF a.tag = "" \/ (Has(result, "tags") /\ result["tags"].kind # "ref")
                    THEN [result |-> result, heap |-> h]
                    ELSE LET fresh == ~Has(result, "tags")
                             h1 == IF fresh THEN Append(h, <<>>) ELSE h
                             r1 == IF fresh THEN Put(result, "tags", Ref(Len(h1))) ELSE result
                             l == r1["tags"].ref
                         IN  [result |-> r1,
                              heap |-> IF Contains(h1[l], a.tag) THEN h1
                                       ELSE [h1 EXCEPT ![l] = Append(@, a.tag)]]
               [] a.type = "copy_field" ->
                    [result |-> IF a.source # "" /\ a.target # "" /\ Has(result, a.source)
                                THEN Put(result, a.target, result[a.source]) ELSE result,
                     heap |-> h]
               [] OTHER -> [result |-> result, heap |-> h]

(***************************************************************************)
(* RuleEngine (rules.py, class RuleEngine).                                *)
(***************************************************************************)
\* The order list.sort(key=priority, reverse=True) leaves two elements in when the
\* first one stood before the second: the sort is stable, so the earlier element
\* stays ahead unless its priority is strictly lower.
KeepsAheadStrict(e, r) == e.priority > r.priority
KeepsAhead(e, r) == e.priority >= r.priority

RECURSIVE InsertByPriority(_, _)
InsertByPriority(s, r) ==
    IF s = <<>> THEN <<r>>
    ELSE IF KeepsAhead(Head(s), r) THEN <<Head(s)>> \o InsertByPriority(Tail(s), r)
    ELSE <<r>> \o s

RECURSIVE SortByPriorityDesc(_)
SortByPriorityDesc(s) ==
    IF s = <<>> THEN <<>>
    ELSE InsertByPriority(SortByPriorityDesc(SubSeq(s, 1, Len(s) - 1)), s[Len(s)])

\* RuleEngine._ensure_sorted: the rule list it leaves.
EnsureSorted(rs, flag) == IF ~flag THEN SortByPriorityDesc(rs) ELSE rs

\* The record a rule's conditions are evaluated against inside the loop of process.
EvaluatedRecordInput(st, d) == d
EvaluatedRecord(st, d) == st.result

\* Whether the loop of process ends after a rule was applied.
StopNever(all) == FALSE
StopWhenAll(all) == all
StopAfterMatch(all) == ~all

\* The loop of RuleEngine.process over rs[i..], from the loop state st.
RECURSIVE ProcessLoop(_, _, _, _, _)
ProcessLoop(rs, i, st, d, all) ==
    IF i > Len(rs) THEN st
    ELSE LET rule == rs[i]
             cur == EvaluatedRecord(st, d)
             st1 == [st EXCEPT !.visited = Append(@, rule.id), !.seen = Append(@, [result |-> st.result, heap |-> st.heap])]
         IN  IF Matches(rule, cur)
             THEN LET a == Apply(rule, st.result, st.heap)
                      st2 == [st1 EXCEPT !.result = a.result, !.heap = a.heap,
                                         !.applied = Append(@, rule.id)]
                  IN  IF StopAfterMatch(all) THEN st2 ELSE ProcessLoop(rs, i + 1, st2, d, all)
             ELSE ProcessLoop(rs, i + 1, st1, d, all)

(***************************************************************************)
(* The inputs of the model.                                                *)
(***************************************************************************)
TypeIs(t) == [f \in {"type"} |-> CondLiteral(Lit(t))]

RulePool ==
    { NewRule("low_priority", TypeIs("test"), SetField("processed_by", Lit("low")), 10),
      NewRule("high_priority", TypeIs("test"), SetField("processed_by", Lit("high")), 100),
      NewRule("medium_priority", TypeIs("test"), SetField("processed_by", Lit("medium")), 50),
      NewRule("tag_tests", TypeIs("test"), AddTag("seen"), 100),
      NewRule("retype", [f \in {"processed_by"} |-> CondDict("equals", Lit("high"), <<>>)],
              SetField("type", Lit("chat")), 50) }

\* The records passed to the engine: the mapping and the list objects it refers to.
InputRecords ==
    { [d |-> Put(EmptyDict, "type", Lit(t)), h |-> <<>>] : t \in {"test", "chat"} }
    \cup
    { [d |-> Put(Put(EmptyDict, "type", Lit(t)), "tags", Ref(1)), h |-> <<l>>] :
        t \in {"test", "chat"}, l \in {<<"seen">>, <<"old">>} }

\* The lists passed to process_batch.  Two records of a list may hold the same
\* list object (records made from one template by dict(base, type=...) share
\* the template's tags list).
Tagged(t, n) == Put(Put(EmptyDict, "type", Lit(t)), "tags", Ref(n))
InputBatches ==
    { [ds |-> <<>>, h |-> <<>>],
      [ds |-> <<Tagged("test", 1), Tagged("chat", 1)>>, h |-> << <<"old">> >>],
      [ds |-> <<Tagged("test", 1), Tagged("chat", 2)>>, h |-> << <<"old">>, <<"old">> >>] }

(***************************************************************************)
(* The operations.                                                         *)
(***************************************************************************)
NoCall ==
    /\ data' = EmptyDict /\ heap0' = <<>> /\ heap' = <<>> /\ ret' = EmptyDict
    /\ applyAll' = FALSE /\ visited' = <<>> /\ applied' = <<>> /\ seen' = <<>>
    /\ found' = <<>> /\ batch' = <<>> /\ batchRet' = <<>>

EngineInit ==
    /\ rules = <<>> /\ sorted = FALSE /\ op = "init"
    /\ data = EmptyDict /\ heap0 = <<>> /\ heap = <<>> /\ ret = EmptyDict
    /\ applyAll = FALSE /\ visited = <<>> /\ applied = <<>> /\ seen = <<>>
    /\ found = <<>> /\ resorts = 0 /\ batch = <<>> /\ batchRet = <<>>

\* One more sort, counted up to two.
Counted(n) == IF n < 2 THEN n + 1 ELSE n

SortedAfterAddKept(flag) == flag

\* self._sorted = False of add_rule
SortedAfterAdd(flag) == FALSE

\* RuleEngine.add_rule
AddRule(rule) ==
    /\ Len(rules) < MaxRules
    /\ rules' = Append(rules, [rule EXCEPT !.id = Len(rules) + 1])
    /\ sorted' = SortedAfterAdd(sorted)
    /\ op' = "add_rule"
    /\ NoCall
    /\ UNCHANGED resorts
    /\ UNCHANGED <<pvars, rvars, xvars>>

\* RuleEngine.add_rule_dict
AddRuleDict(name, condition, action, priority) ==
    AddRule(NewRule(name, condition, action, priority))

\* RuleEngine.clear_rules
ClearRules ==
    /\ rules' = <<>>
    /\ sorted' = FALSE
    /\ op' = "clear_rules"
    /\ NoCall
    /\ resorts' = 0
    /\ UNCHANGED <<pvars, rvars, xvars>>

\* RuleEngine.process
Process(d, h, all) ==
    LET rs == EnsureSorted(rules, sorted)
        st == ProcessLoop(rs, 1,
                          [result |-> d, heap |-> h, visited |-> <<>>, applied |-> <<>>,
                           seen |-> <<>>], d, all)
    IN  /\ rules' = rs
        /\ sorted' = TRUE
        /\ op' = "process"
        /\ data' = d /\ heap0' = h /\ applyAll' = all
        /\ heap' = st.heap /\ ret' = st.result
        /\ visited' = st.visited /\ applied' = st.applied /\ seen' = st.seen
        /\ found' = <<>> /\ batch' = <<>> /\ batchRet' = <<>>
        /\ resorts' = IF sorted THEN resorts ELSE Counted(resorts)
        /\ UNCHANGED <<pvars, rvars, xvars>>

\* The list comprehension of process_batch from record i on: each process call
\* works on the list objects as the calls before it left them.
RECURSIVE BatchLoop(_, _, _, _, _, _)
BatchLoop(rs, ds, i, h, out, all) ==
    IF i > Len(ds) THEN [out |-> out, heap |-> h]
    ELSE LET st == ProcessLoop(rs, 1,
                               [result |-> ds[i], heap |-> h, visited |-> <<>>,
                                applied |-> <<>>, seen |-> <<>>], ds[i], all)
         IN  BatchLoop(rs, ds, i + 1, st.heap, Append(out, st.result), all)

\* RuleEngine.process_batch: an empty list makes no process call
ProcessBatch(ds, h, all) ==
    LET rs == IF ds = <<>> THEN rules ELSE EnsureSorted(rules, sorted)
        b == BatchLoop(rs, ds, 1, h, <<>>, all)
    IN  /\ rules' = rs
        /\ sorted' = IF ds = <<>> THEN sorted ELSE TRUE
        /\ op' = "process_batch"
        /\ batch' = ds /\ heap0' = h /\ applyAll' = all
        /\ batchRet' = b.out /\ heap' = b.heap
        /\ data' = EmptyDict /\ ret' = EmptyDict
        /\ visited' = <<>> /\ applied' = <<>> /\ seen' = <<>> /\ found' = <<>>
        /\ resorts' = IF sorted \/ ds = <<>> THEN resorts ELSE Counted(resorts)
        /\ UNCHANGED <<pvars, rvars, xvars>>

\* RuleEngine.find_matching_rules
FindMatchingRules(d, h) ==
    LET rs == EnsureSorted(rules, sorted)
        hit == SelectSeq(rs, LAMBDA r : Matches(r, d))
    IN  /\ rules' = rs
        /\ sorted' = TRUE
        /\ op' = "find_matching_rules"
        /\ data' = d /\ heap0' = h /\ heap' = h /\ ret' = EmptyDict
        /\ applyAll' = FALSE /\ applied' = <<>> /\ seen' = <<>>
        /\ visited' = [i \in 1..Len(rs) |-> rs[i].id]
        /\ found' = [i \in 1..Len(hit) |-> hit[i].id]
        /\ batch' = <<>> /\ batchRet' = <<>>
        /\ resorts' = IF sorted THEN resorts ELSE Counted(resorts)
        /\ UNCHANGED <<pvars, rvars, xvars>>

\* The state after construction: an engine without rules, a parser without rules.
ParserInit ==
    /\ contentRules = <<>> /\ line = <<>> /\ segments = <<>> /\ pop = "init"
    /\ work = <<>> /\ calls = 0
    /\ ExtIdle

Init == EngineInit /\ ParserInit

Next ==
    \/ \E r \in RulePool : AddRule(r)
    \/ \E r \in RulePool : AddRuleDict(r.name, r.condition, r.action, r.priority)
    \/ ClearRules
    \/ \E in \in InputRecords, all \in BOOLEAN : Process(in.d, in.h, all)
    \/ \E in \in InputRecords : FindMatchingRules(in.d, in.h)
    \/ \E in \in InputBatches, all \in BOOLEAN : ProcessBatch(in.ds, in.h, all)

Spec == Init /\ [][Next]_vars

(***************************************************************************)
(* Parser._parse_line_content and its three handlers (parser.py).          *)
(* A handler's result is given as the list of its items in emission order: *)
(* the segment it builds and the recursive calls whose results it splices  *)
(* in before or after it.                                                  *)
(***************************************************************************)
ContentRule(type, matchType, patterns, groups, priority) ==
    [type |-> type, match_type |-> matchType, patterns |-> patterns, groups |-> groups,
     priority |-> priority]

CallItem(text) == [kind |-> "call", text |-> text, seg |-> <<>>]
SegItem(seg) == [kind |-> "seg", text |-> <<>>, seg |-> seg]

\* A key the rule file left out of a rule object, and the KeyError that
\* rule["type"] or rule["match_type"] raises for it; a result that holds the
\* error stands for a call that raised.
Missing == "<missing>"
KeyError == Put(EmptyDict, "raise", "KeyError")
RaiseItem == SegItem(KeyError)
Raised(segs) == Contains(segs, KeyError)

RecurseNever(part) == <<>>

\* result.extend(self._parse_line_content(part)) under "if part:"
Recurse(part) == IF part # <<>> THEN <<CallItem(part)>> ELSE <<>>

\* match.group(i + 1).strip() if match.group(i + 1) else ""
GroupValue(g) == IF g.some /\ g.text # <<>> THEN Strip(g.text) ELSE <<>>

\* entry = {"type": ..., "content": matched} and the loop over rule["groups"]
RECURSIVE AddGroups(_, _, _, _)
AddGroups(entry, names, m, i) ==
    IF i > Len(names) THEN entry
    ELSE AddGroups(
            IF i <= Len(m.groups)
            THEN Put(entry, names[i], GroupValue(m.groups[i]))
            ELSE entry,
            names, m, i + 1)

Entry(rule, matched, m) ==
    AddGroups(Put(Put(EmptyDict, "type", rule.type), "content", matched), rule.groups, m, 1)

HandleEnclosedMatchNoAfter(text, m, rule) ==
    LET before == Strip(Slice(text, 0, m.start))
        matched == Strip(Slice(text, m.start, m.end))
    IN  Recurse(before) \o <<SegItem(Entry(rule, matched, m))>>

\* Parser._handle_enclosed_match
HandleEnclosedMatch(text, m, rule) ==
    LET before == Strip(Slice(text, 0, m.start))
        matched == Strip(Slice(text, m.start, m.end))
        after == Strip(Slice(text, m.end, Len(text)))
    IN  Recurse(before) \o <<SegItem(Entry(rule, matched, m))>> \o Recurse(after)

HandlePrefixMatchToMatchEnd(text, m, rule) ==
    LET matched == Strip(Slice(text, m.start, m.end))
        before == Strip(Slice(text, 0, m.start))
    IN  Recurse(before) \o <<SegItem(Entry(rule, matched, m))>>

\* Parser._handle_prefix_match
HandlePrefixMatch(text, m, rule) ==
    LET matched == Strip(Slice(text, m.start, Len(text)))
        before == Strip(Slice(text, 0, m.start))
    IN  Recurse(before) \o <<SegItem(Entry(rule, matched, m))>>

HandleSuffixMatchFromMatchStart(text, m, rule) ==
    LET matched == Strip(Slice(text, m.start, m.end))
        after == Strip(Slice(text, m.end, Len(text)))
    IN  <<SegItem(Entry(rule, matched, m))>> \o Recurse(after)

HandleSuffixMatchAfterFromStart(text, m, rule) ==
    LET matched == Strip(Slice(text, 0, m.end))
        after == Strip(Slice(text, m.start, Len(text)))
    IN  <<SegItem(Entry(rule, matched, m))>> \o Recurse(after)

\* Parser._handle_suffix_match
HandleSuffixMatch(text, m, rule) ==
    LET matched == Strip(Slice(text, 0, m.end))
        after == Strip(Slice(text, m.end, Len(text)))
    IN  <<SegItem(Entry(rule, matched, m))>> \o Recurse(after)

ContentRulesAsDeclared(rs) == rs

\* sorted(self.rules.get("content", []), key=priority, reverse=True)
SortedContentRules(rs) == SortByPriorityDesc(rs)

UnknownSegmentStripped(text) == Put(Put(EmptyDict, "type", "unknown"), "content", Strip(text))

\* The catch-all of _parse_line_content
UnknownSegment(text) == Put(Put(EmptyDict, "type", "unknown"), "content", text)

NoHit == [found |-> FALSE, rule |-> <<>>, match |-> NoMatch]

\* The two nested loops of _parse_line_content from rule i, pattern j on: the first
\* pattern that matches, of a rule whose match_type one of the branches handles
\* or which has no match_type to compare.
RECURSIVE ScanRules(_, _, _, _)
ScanRules(rs, i, j, text) ==
    IF i > Len(rs) THEN NoHit
    ELSE IF j > Len(rs[i].patterns) THEN ScanRules(rs, i + 1, 1, text)
    ELSE LET m == Search(rs[i].patterns[j], text) IN
         IF m.found /\ rs[i].match_type \in {"enclosed", "prefix", "suffix", Missing}
         THEN [found |-> TRUE, rule |-> rs[i], match |-> m]
         ELSE ScanRules(rs, i, j + 1, text)

\* One invocation of _parse_line_content, its recursive calls left as items.
\* rule["match_type"] raises when the rule has none, and so does rule["type"]
\* where the handler builds its segment.
ParseStep(text, rs) ==
    IF text = <<>> THEN <<>>
    ELSE LET hit == ScanRules(SortedContentRules(rs), 1, 1, text) IN
         IF ~hit.found THEN <<SegItem(UnknownSegment(text))>>
         ELSE IF hit.rule.match_type = Missing THEN <<RaiseItem>>
         ELSE LET items ==
                    CASE hit.rule.match_type = "enclosed" -> HandleEnclosedMatch(text, hit.match, hit.rule)
                      [] hit.rule.match_type = "prefix" -> HandlePrefixMatch(text, hit.match, hit.rule)
                      [] hit.rule.match_type = "suffix" -> HandleSuffixMatch(text, hit.match, hit.rule)
              IN  IF hit.rule.type # Missing THEN items
                  ELSE [k \in 1..Len(items) |->
                            IF items[k].kind = "seg" THEN RaiseItem ELSE items[k]]

\* Parser._parse_line_content
RECURSIVE ParseLineContent(_, _)
RECURSIVE ResolveItems(_, _)
ParseLineContent(text, rs) == ResolveItems(ParseStep(text, rs), rs)
ResolveItems(items, rs) ==
    IF items = <<>> THEN <<>>
    ELSE (IF Head(items).kind = "call" THEN ParseLineContent(Head(items).text, rs)
          ELSE <<Head(items).seg>>) \o ResolveItems(Tail(items), rs)

(***************************************************************************)
(* The inputs of the parser.                                               *)
(***************************************************************************)
Alphabet == {"a", "b", " "}
Texts == UNION { [1..n -> Alphabet] : n \in 0..MaxLen }

PatA == Pattern(<<"a">>, << <<1, 1>> >>)
PatB == Pattern(<<"b">>, <<>>)
PatSpaceA == Pattern(<<" ", "a">>, << <<1, 2>>, <<0, 0>> >>)

ContentRulePool ==
    { ContentRule("A", "enclosed", <<PatA>>, <<"g1">>, 10),
      ContentRule("B", "enclosed", <<PatB>>, <<>>, 90),
      ContentRule("P", "prefix", <<PatA>>, <<"g1">>, 90),
      ContentRule("Q", "prefix", <<PatB, PatSpaceA>>, <<"g1", "g2">>, 10),
      ContentRule("S", "suffix", <<PatB>>, <<>>, 10),
      ContentRule("T", "suffix", <<PatSpaceA, PatA>>, <<"g1">>, 90) }

ContentRuleLists == UNION { [1..n -> ContentRulePool] : n \in 0..MaxContentRules }

(***************************************************************************)
(* _parse_line_content as a function: the rules and the text are drawn,    *)
(* the call returns its segments.                                          *)
(***************************************************************************)
InitParser ==
    /\ EngineInit
    /\ contentRules \in ContentRuleLists
    /\ line \in Texts
    /\ segments = <<>> /\ pop = "init"
    /\ work = <<>> /\ calls = 0
    /\ ExtIdle

ParseLine ==
    /\ pop = "init"
    /\ segments' = ParseLineContent(line, contentRules)
    /\ pop' = "parse"
    /\ UNCHANGED <<contentRules, line, evars, rvars, xvars>>

NextParser == ParseLine

SpecParser == InitParser /\ [][NextParser]_vars

(***************************************************************************)
(* Properties of the rule engine.                                          *)
(***************************************************************************)
\* The rules of the engine, as a set.
RuleSetOf(rs) == { rs[i] : i \in 1..Len(rs) }
RuleById(n) == CHOOSE r \in RuleSetOf(rules) : r.id = n

\* a comes before b in descending-priority order, ties in the order of addition.
Precedes(a, b) ==
    \/ a.priority > b.priority
    \/ a.priority = b.priority /\ a.id < b.id

MatchingRules == { r \in RuleSetOf(rules) : Matches(r, data) }
BestMatch == CHOOSE r \in MatchingRules : \A q \in MatchingRules \ {r} : Precedes(r, q)

\* C1: process and Rule.apply never mutate their argument: the record the caller
\* passed, and every list reachable from it, is after the call what it was before.
C1_InputNeverMutated ==
    op = "process" => Deep(data, heap) = Deep(data, heap0)

\* C2: with apply_all = false, process applies exactly the matching rule that comes
\* first in descending-priority order (ties in insertion order): every rule it
\* evaluated before that one comes earlier in the order and does not match, no rule
\* after it is evaluated, and when no rule matches the result equals the input.
C2_FirstMatchOnly ==
    (op = "process" /\ ~applyAll) =>
        IF MatchingRules = {}
        THEN /\ applied = <<>>
             /\ ret = data /\ heap = heap0
             /\ Len(visited) = Len(rules)
        ELSE /\ applied = <<BestMatch.id>>
             /\ visited[Len(visited)] = BestMatch.id
             /\ \A i \in 1..(Len(visited) - 1) :
                    /\ Precedes(RuleById(visited[i]), BestMatch)
                    /\ ~Matches(RuleById(visited[i]), data)
             /\ ret = Apply(BestMatch, data, heap0).result
             /\ heap = Apply(BestMatch, data, heap0).heap

C2_Witness ==
    /\ op = "process" /\ ~applyAll
    /\ Cardinality(MatchingRules) >= 2
    /\ Len(applied) = 1
    /\ Len(visited) < Len(rules)
    /\ \E r \in MatchingRules : r.id < BestMatch.id
    /\ ret # data

\* The applied rules that are set_field rules on field f.
AppliedSetters(f) ==
    { r \in RuleSetOf(rules) :
        /\ Contains(applied, r.id)
        /\ r.action.type = "set_field" /\ r.action.field = f }
LastSetter(f) ==
    CHOOSE r \in AppliedSetters(f) : \A q \in AppliedSetters(f) \ {r} : Precedes(q, r)
FirstSetter(f) ==
    CHOOSE r \in AppliedSetters(f) : \A q \in AppliedSetters(f) \ {r} : Precedes(r, q)

\* C3: with apply_all = true, process visits every rule in descending-priority
\* order, evaluates each against the record as the rules applied before it left it,
\* and applies exactly those that match; so a field that several applied set_field
\* rules write ends with the literal of the one lowest in that order, while with
\* apply_all = false it holds the literal of the highest matching one.
C3_ApplyAllCumulative ==
    /\ (op = "process" /\ applyAll) =>
        /\ visited = [i \in 1..Len(rules) |-> rules[i].id]
        /\ \A i \in 1..Len(rules) : \A j \in 1..Len(rules) :
                i < j => Precedes(rules[i], rules[j])
        /\ Len(seen) = Len(rules)
        /\ Len(rules) > 0 => seen[1] = [result |-> data, heap |-> heap0]
        /\ \A i \in 1..Len(rules) :
                LET cur == seen[i]
                    nxt == IF i < Len(rules) THEN seen[i + 1]
                           ELSE [result |-> ret, heap |-> heap]
                IN  IF Matches(rules[i], cur.result)
                    THEN /\ Contains(applied, rules[i].id)
                         /\ nxt = Apply(rules[i], cur.result, cur.heap)
                    ELSE /\ ~Contains(applied, rules[i].id)
                         /\ nxt = cur
        /\ \A f \in {"processed_by", "type"} :
                AppliedSetters(f) # {} => ret[f] = LastSetter(f).action.value
    /\ (op = "process" /\ ~applyAll) =>
        \A f \in {"processed_by", "type"} :
            /\ AppliedSetters(f) # {} => ret[f] = FirstSetter(f).action.value
            /\ \A r \in MatchingRules :
                    (r.action.type = "set_field" /\ r.action.field = f /\ r # BestMatch)
                        => ~Contains(applied, r.id)

C3_Witness ==
    /\ op = "process" /\ applyAll
    /\ Len(applied) = 3
    /\ Cardinality(AppliedSetters("processed_by")) = 3
    /\ rules[1].priority > rules[2].priority /\ rules[2].priority > rules[3].priority
    /\ ret["processed_by"] = rules[3].action.value
    /\ ret["processed_by"] # rules[1].action.value

\* C4: whatever the interleaving of add_rule / add_rule_dict with process /
\* find_matching_rules, a process call visits the rules by descending priority, two
\* rules of equal priority in the order in which they were added.
C4_VisitOrderStable ==
    /\ sorted =>
        \A i \in 1..Len(rules) : \A j \in 1..Len(rules) :
            i < j => Precedes(rules[i], rules[j])
    /\ op \in {"process", "find_matching_rules"} =>
        /\ sorted
        /\ Len(visited) <= Len(rules)
        /\ \A i \in 1..Len(visited) : visited[i] = rules[i].id

C4_Witness ==
    /\ op = "process" /\ applyAll
    /\ resorts >= 2
    /\ Len(visited) = 3
    /\ \E i \in 1..2 : rules[i].priority = rules[i + 1].priority
    /\ \E i \in 1..2 : rules[i].id > rules[i + 1].id
    /\ rules[Len(rules)].id # Len(rules)

(***************************************************************************)
(* _parse_line_content run call by call: work holds, in output order, the  *)
(* segments emitted so far and the recursive calls not yet run; the        *)
(* leftmost pending call runs next, as in the depth-first recursion.       *)
(***************************************************************************)
InitRec == InitParser

PendingCalls == { k \in 1..Len(work) : work[k].item.kind = "call" }

\* The top-level call is entered.
BeginParse ==
    /\ pop = "init"
    /\ pop' = "running"
    /\ work' = << [item |-> CallItem(line), depth |-> 0, parent |-> 0] >>
    /\ UNCHANGED <<contentRules, line, segments, calls, evars, xvars>>

\* One invocation runs up to its recursive calls.
RunCall ==
    /\ pop = "running"
    /\ PendingCalls # {}
    /\ LET k == CHOOSE x \in PendingCalls : \A y \in PendingCalls : x <= y
           c == work[k]
           items == ParseStep(c.item.text, contentRules)
           new == [i \in 1..Len(items) |->
                     [item |-> items[i], depth |-> c.depth + 1, parent |-> Len(c.item.text)]]
       IN  work' = SubSeq(work, 1, k - 1) \o new \o SubSeq(work, k + 1, Len(work))
    /\ calls' = calls + 1
    /\ UNCHANGED <<contentRules, line, segments, pop, evars, xvars>>

\* No call is left: the top-level call returns the segments.
ReturnSegments ==
    /\ pop = "running"
    /\ PendingCalls = {}
    /\ segments' = [k \in 1..Len(work) |-> work[k].item.seg]
    /\ pop' = "parse"
    /\ UNCHANGED <<contentRules, line, work, calls, evars, xvars>>

NextRec ==
    \/ BeginParse
    \/ RunCall
    \/ ReturnSegments

SpecRec == InitRec /\ [][NextRec]_vars

\* A call that has begun runs on: each step of the synchronous recursion is taken.
FairSpecRec == SpecRec /\ WF_vars(NextRec)

\* Every call of _parse_line_content returns.
Terminates == <>(pop = "parse")

\* The call-by-call run returns what the recursive definition returns.
RecAgrees ==
    pop = "parse" => segments = ParseLineContent(line, contentRules)

(***************************************************************************)
(* Properties of the content segmenter.                                    *)
(***************************************************************************)
\* The pattern's literal stands in text at 0-based offset i.
Occurs(lit, text, i) ==
    /\ i + Len(lit) <= Len(text)
    /\ \A k \in 1..Len(lit) : text[i + k] = lit[k]
OccursIn(lit, text) == \E i \in 0..Len(text) : Occurs(lit, text, i)
FirstOffset(lit, text) ==
    CHOOSE i \in 0..Len(text) :
        Occurs(lit, text, i) /\ \A k \in 0..(i - 1) : ~Occurs(lit, text, k)

\* The (rule, pattern) pairs, by position in the declared lists, that match in line.
AllPairs ==
    UNION { { <<i, j>> : j \in 1..Len(contentRules[i].patterns) } : i \in 1..Len(contentRules) }
PairPattern(p) == contentRules[p[1]].patterns[p[2]]
MatchingPairs == { p \in AllPairs : OccursIn(PairPattern(p).lit, line) }

\* p is tried before q: higher priority first, then declaration order, then the
\* order of the rule's patterns.
PairBefore(p, q) ==
    \/ contentRules[p[1]].priority > contentRules[q[1]].priority
    \/ /\ contentRules[p[1]].priority = contentRules[q[1]].priority
       /\ (p[1] < q[1] \/ (p[1] = q[1] /\ p[2] < q[2]))
Winner == CHOOSE p \in MatchingPairs : \A q \in MatchingPairs \ {p} : PairBefore(p, q)
WinRule == contentRules[Winner[1]]
WinPat == PairPattern(Winner)
WinStart == FirstOffset(WinPat.lit, line)
WinEnd == WinStart + Len(WinPat.lit)
Matched == pop = "parse" /\ MatchingPairs # {}

Seg(text) == ParseLineContent(text, contentRules)

\* The text capture group k of the winning match holds, stripped ("" when the group
\* took no part in the match).
WinCapture(k) ==
    IF WinPat.groups[k][1] = 0 THEN <<>>
    ELSE Strip(SubSeq(line, WinStart + WinPat.groups[k][1], WinStart + WinPat.groups[k][2]))
WinNamed == { k \in 1..Len(WinRule.groups) : k <= Len(WinPat.groups) }

\* The segment of the winning rule with the given content.
WinSegment(content) ==
    [key \in {"type", "content"} \cup { WinRule.groups[k] : k \in WinNamed } |->
        IF key = "type" THEN WinRule.type
        ELSE IF key = "content" THEN content
        ELSE WinCapture(CHOOSE k \in WinNamed : WinRule.groups[k] = key)]

\* C5: priority dominates position: the first (rule, pattern) pair in priority /
\* declaration order that matches anywhere in the text decides the split, i.e. the
\* call splits the text as it would with that rule and that pattern alone.
C5_PriorityDecidesSplit ==
    Matched =>
        segments =
            ResolveItems(ParseStep(line, << [WinRule EXCEPT !.patterns = <<WinPat>>] >>),
                         contentRules)

C5_Witness ==
    /\ Matched
    /\ \E q \in MatchingPairs :
          /\ contentRules[q[1]].priority < WinRule.priority
          /\ q[1] < Winner[1]
          /\ FirstOffset(PairPattern(q).lit, line) < WinStart
          /\ contentRules[q[1]].match_type # WinRule.match_type
    /\ \E k \in 1..Len(segments) : segments[k].type = WinRule.type

\* C6 as stated: an enclosed winner with span [s, e) gives the segmentation of
\* text[0:s], then one segment with content text[s:e], then the segmentation of
\* text[e:].
C6_EnclosedAsStated ==
    (Matched /\ WinRule.match_type = "enclosed") =>
        segments = Seg(Slice(line, 0, WinStart))
                   \o << WinSegment(Slice(line, WinStart, WinEnd)) >>
                   \o Seg(Slice(line, WinEnd, Len(line)))

\* C6, amended: the three parts are stripped of surrounding whitespace first: the
\* result is the segmentation of strip(text[0:s]), one segment of the rule's type
\* with content strip(text[s:e]) and the stripped captures, then the segmentation of
\* strip(text[e:]).
C6_EnclosedStripped ==
    (Matched /\ WinRule.match_type = "enclosed") =>
        segments = Seg(Strip(Slice(line, 0, WinStart)))
                   \o << WinSegment(Strip(Slice(line, WinStart, WinEnd))) >>
                   \o Seg(Strip(Slice(line, WinEnd, Len(line))))

C6_Witness ==
    /\ Matched /\ WinRule.match_type = "enclosed"
    /\ Len(Seg(Strip(Slice(line, 0, WinStart)))) >= 1
    /\ Len(Seg(Strip(Slice(line, WinEnd, Len(line))))) >= 1
    /\ Len(WinRule.groups) >= 1
    /\ Strip(Slice(line, 0, WinStart)) # Slice(line, 0, WinStart)
    /\ Len(segments) >= 3

\* C7 as stated: a prefix winner with match start s gives the segmentation of
\* text[0:s] followed by one last segment with content text[s:].
C7_PrefixAsStated ==
    (Matched /\ WinRule.match_type = "prefix") =>
        segments = Seg(Slice(line, 0, WinStart))
                   \o << WinSegment(Slice(line, WinStart, Len(line))) >>

\* C7, amended: the result is the segmentation of strip(text[0:s]) followed by one
\* last segment of the rule's type with content strip(text[s:]), which runs to the
\* end of the text and not to the match end.
C7_PrefixStripped ==
    (Matched /\ WinRule.match_type = "prefix") =>
        /\ segments = Seg(Strip(Slice(line, 0, WinStart)))
                      \o << WinSegment(Strip(Slice(line, WinStart, Len(line)))) >>
        /\ segments[Len(segments)].type = WinRule.type

C7_Witness ==
    /\ Matched /\ WinRule.match_type = "prefix"
    /\ WinEnd < Len(line)
    /\ Strip(Slice(line, WinEnd, Len(line))) # <<>>
    /\ WinStart > 0
    /\ Len(segments) >= 2
    /\ \E q \in MatchingPairs : FirstOffset(PairPattern(q).lit, line) >= WinEnd

\* C8 as stated: a suffix winner with match end e gives one segment with content
\* text[0:e] followed by the segmentation of text[e:].
C8_SuffixAsStated ==
    (Matched /\ WinRule.match_type = "suffix") =>
        segments = << WinSegment(Slice(line, 0, WinEnd)) >>
                   \o Seg(Slice(line, WinEnd, Len(line)))

\* C8, amended: the result starts with one segment of the rule's type with content
\* strip(text[0:e]), text before the match start included, followed by the
\* segmentation of strip(text[e:]).
C8_SuffixStripped ==
    (Matched /\ WinRule.match_type = "suffix") =>
        segments = << WinSegment(Strip(Slice(line, 0, WinEnd))) >>
                   \o Seg(Strip(Slice(line, WinEnd, Len(line))))

C8_Witness ==
    /\ Matched /\ WinRule.match_type = "suffix"
    /\ WinStart > 0
    /\ Strip(Slice(line, 0, WinStart)) # <<>>
    /\ Len(segments) >= 2
    /\ segments[1].type = WinRule.type

\* C9 as stated: any text in which no pattern matches gives exactly one 'unknown'
\* segment whose content is the text.
C9_NoMatchAsStated ==
    (pop = "parse" /\ MatchingPairs = {}) =>
        segments = << [type |-> "unknown", content |-> line] >>

\* C9, amended: any non-empty text in which no pattern matches gives exactly one
\* segment, of type 'unknown', with the text verbatim as content and no other key.
C9_NoMatchNonEmpty ==
    (pop = "parse" /\ MatchingPairs = {} /\ line # <<>>) =>
        /\ Len(segments) = 1
        /\ DOMAIN segments[1] = {"type", "content"}
        /\ segments[1].type = "unknown"
        /\ segments[1].content = line

C9_Witness ==
    /\ pop = "parse" /\ MatchingPairs = {}
    /\ contentRules # <<>>
    /\ Len(line) >= 2
    /\ Strip(line) # line
    /\ Strip(line) # <<>>
    /\ Len(segments) = 1

\* C10: with non-empty matches every recursive call receives a text strictly
\* shorter than its caller's, so the nesting depth never exceeds the text length
\* and no more calls run than the text has characters (one for the empty text).
C10_CallsShrink ==
    /\ \A k \in 1..Len(work) :
          /\ work[k].depth <= Len(line) + 1
          /\ work[k].item.kind = "call" =>
                /\ work[k].depth <= Len(line)
                /\ work[k].depth > 0 => Len(work[k].item.text) < work[k].parent
    /\ calls <= (IF Len(line) = 0 THEN 1 ELSE Len(line))

C10_Witness ==
    /\ pop = "running"
    /\ \E k \in 1..Len(work) : work[k].item.kind = "call" /\ work[k].depth >= 2
    /\ \E i \in 1..Len(contentRules) : contentRules[i].match_type = "enclosed"
    /\ \E i \in 1..Len(contentRules) : contentRules[i].match_type = "suffix"
    /\ calls >= 2

\* The rule of a segment that is not the catch-all (the rules of the pool
\* differ in their types), and the place of the winner's segment in the result.
RuleOfType(t) == CHOOSE r \in RuleSetOf(contentRules) : r.type = t
WinIndex ==
    IF WinRule.match_type = "suffix" THEN 1
    ELSE Len(Seg(Strip(Slice(line, 0, WinStart)))) + 1
NoPart(p, i) == p.groups[i][1] = 0

\* C27: every segment of a matched rule has a key for every name of
\* the rule's group list; a name whose group took no part in the match, or
\* whose position is beyond the pattern's groups, maps to the empty string;
\* groups beyond the names give no key.
C27_KeyForEveryName ==
    pop = "parse" =>
        \A k \in 1..Len(segments) : segments[k]["type"] # "unknown" =>
            LET r == RuleOfType(segments[k]["type"]) IN
            \E j \in 1..Len(r.patterns) :
                /\ DOMAIN segments[k]
                      = {"type", "content"} \cup { r.groups[i] : i \in 1..Len(r.groups) }
                /\ \A i \in 1..Len(r.groups) :
                      (i > Len(r.patterns[j].groups) \/ NoPart(r.patterns[j], i))
                      => segments[k][r.groups[i]] = <<>>

\* What the handlers do: a segment has a key for the names within the
\* capture-group count of the pattern that matched and no key for the names
\* beyond it; a name whose group took no part maps to the empty string, any
\* other to the stripped capture; groups beyond the names give no key.
KeyForEveryNamedGroup ==
    /\ pop = "parse" =>
          \A k \in 1..Len(segments) : segments[k]["type"] # "unknown" =>
              LET r == RuleOfType(segments[k]["type"]) IN
              \E j \in 1..Len(r.patterns) :
                  LET n == IF Len(r.groups) < Len(r.patterns[j].groups)
                           THEN Len(r.groups) ELSE Len(r.patterns[j].groups)
                  IN  /\ DOMAIN segments[k]
                            = {"type", "content"} \cup { r.groups[i] : i \in 1..n }
                      /\ \A i \in 1..n :
                            NoPart(r.patterns[j], i) => segments[k][r.groups[i]] = <<>>
    /\ Matched =>
          /\ DOMAIN segments[WinIndex]
                = {"type", "content"} \cup { WinRule.groups[i] : i \in WinNamed }
          /\ \A i \in WinNamed : segments[WinIndex][WinRule.groups[i]] = WinCapture(i)

\* The three cases: a name beyond the groups of the pattern (no key), a group
\* beyond the names, a group that took no part ("").
NameBeyondGroups ==
    Matched /\ WinRule.type = "Q" /\ WinPat = PatB /\ ~Has(segments[WinIndex], "g1")
GroupBeyondNames ==
    Matched /\ WinRule.type = "T" /\ WinPat = PatSpaceA
    /\ DOMAIN segments[WinIndex] = {"type", "content", "g1"}
GroupTookNoPart ==
    Matched /\ WinRule.type = "Q" /\ WinPat = PatSpaceA /\ segments[WinIndex]["g2"] = <<>>

\* line[a:b] is whitespace only.
Blank(a, b) == \A i \in (a + 1)..b : line[i] = " "

\* The contents of the segments from the k-th on stand in the line from
\* offset from on, one after the other, with nothing but whitespace before,
\* between and after them.
RECURSIVE Embeds(_, _)
Embeds(k, from) ==
    IF k > Len(segments) THEN Blank(from, Len(line))
    ELSE \E i \in from..Len(line) :
            /\ Occurs(segments[k]["content"], line, i)
            /\ Blank(from, i)
            /\ Embeds(k + 1, i + Len(segments[k]["content"]))

\* C28: the contents of the segments, in order, are substrings of the line
\* at increasing positions that do not overlap and leave out whitespace
\* only: every other character of the line is in exactly one of them.
C28_SegmentationConservesText == pop = "parse" => Embeds(1, 0)

\* A line cut in three or more segments, with whitespace dropped between them.
C28_Witness ==
    /\ Matched /\ Len(segments) >= 3 /\ Embeds(1, 0)
    /\ \E i \in 2..(Len(line) - 1) : line[i] = " " /\ line[i - 1] # " " /\ line[i + 1] # " "
    /\ \A k \in 1..Len(segments) :
          segments[k]["content"] # <<>> /\ ~Contains(segments[k]["content"], " ")

(***************************************************************************)
(* Parser.parse_log and Parser._match_metadata (parser.py).                *)
(* rules["metadata"] is what the rule file held under that key: one rule   *)
(* object, as _match_metadata reads it, or a list of rule objects, as the  *)
(* rule files of tests/test_parser.py and tests/test_rule_extractor.py     *)
(* write it.                                                               *)
(***************************************************************************)
MetadataRule(patterns, groups) ==
    [form |-> "dict", patterns |-> patterns, groups |-> groups, rules |-> <<>>]
MetadataRuleList(rs) ==
    [form |-> "list", patterns |-> <<>>, groups |-> <<>>, rules |-> rs]

\* re.match(pattern, line): a match that starts at offset 0
Match(p, text) ==
    LET m == Search(p, text) IN IF m.found /\ m.start = 0 THEN m ELSE NoMatch

NoMetadata == [kind |-> "none", metadata |-> EmptyDict]
RaisedInMatch == [kind |-> "raise", metadata |-> EmptyDict]

\* metadata[key] = match.group(i + 1).strip() for each name of "groups"; the
\* group of a match that took no part in it is None, which has no strip()
RECURSIVE MetadataGroups(_, _, _, _)
MetadataGroups(metadata, names, m, i) ==
    IF i > Len(names) THEN [kind |-> "match", metadata |-> metadata]
    ELSE IF i <= Len(m.groups)
         THEN IF ~m.groups[i].some THEN RaisedInMatch
              ELSE MetadataGroups(Put(metadata, names[i], Strip(m.groups[i].text)),
                                  names, m, i + 1)
         ELSE MetadataGroups(metadata, names, m, i + 1)

RECURSIVE MatchPatterns(_, _, _)
MatchPatterns(mr, j, text) ==
    IF j > Len(mr.patterns) THEN NoMetadata
    ELSE LET m == Match(mr.patterns[j], text) IN
         IF m.found
         THEN MetadataGroups(Put(EmptyDict, "type", "metadata"), mr.groups, m, 1)
         ELSE MatchPatterns(mr, j + 1, text)

\* Parser._match_metadata: a falsy rules["metadata"] matches nothing, a list
\* has no get()
MatchMetadata(mr, text) ==
    IF mr.form = "absent" \/ (mr.form = "list" /\ mr.rules = <<>>) THEN NoMetadata
    ELSE IF mr.form = "list" THEN RaisedInMatch
    ELSE MatchPatterns(mr, 1, text)

\* The entry parse_log appends: {**current_metadata, "content": current_content}
LogEntry(metadata, content) == Put(metadata, "content", content)

\* The loop of parse_log from line i on; st holds parsed_data, current_metadata
\* (has tells it from None) and current_content.
RECURSIVE ParseLogLoop(_, _, _, _, _)
ParseLogLoop(lines, i, st, mr, rs) ==
    IF i > Len(lines)
    THEN [raised |-> FALSE,
          entries |-> IF st.has THEN Append(st.parsed, LogEntry(st.metadata, st.content))
                      ELSE st.parsed]
    ELSE LET text == Strip(lines[i]) IN
         IF text = <<>> THEN ParseLogLoop(lines, i + 1, st, mr, rs)
         ELSE LET mm == MatchMetadata(mr, text) IN
              IF mm.kind = "raise" THEN [raised |-> TRUE, entries |-> <<>>]
              ELSE IF mm.kind = "match"
              THEN ParseLogLoop(lines, i + 1,
                       [parsed |-> IF st.has
                                   THEN Append(st.parsed, LogEntry(st.metadata, st.content))
                                   ELSE st.parsed,
                        has |-> TRUE, metadata |-> mm.metadata,
                        content |-> IF st.has THEN <<>> ELSE st.content],
                       mr, rs)
              ELSE IF st.has
              THEN ParseLogLoop(lines, i + 1,
                       [st EXCEPT !.content = @ \o ParseLineContent(text, rs)], mr, rs)
              ELSE ParseLogLoop(lines, i + 1, st, mr, rs)

\* Parser.parse_log
ParseLog(lines, mr, rs) ==
    ParseLogLoop(lines, 1,
                 [parsed |-> <<>>, has |-> FALSE, metadata |-> EmptyDict, content |-> <<>>],
                 mr, rs)

(***************************************************************************)
(* parse_log on a file: the rule set and the lines are drawn, the call     *)
(* returns its entries or raises.                                          *)
(***************************************************************************)
MaxLines == 3

\* "b..." and "ab..." are metadata lines; the group names the speaker.
PatMetaB == Pattern(<<"b">>, << <<1, 1>> >>)
PatMetaAB == Pattern(<<"a", "b">>, << <<1, 1>> >>)
TheMetadataRule == MetadataRule(<<PatMetaB, PatMetaAB>>, <<"speaker">>)

\* A rule declared before it, whose pattern "a..." also matches the "ab..." lines.
PatMetaA == Pattern(<<"a">>, << <<1, 1>> >>)
TimestampRule == MetadataRule(<<PatMetaA>>, <<"timestamp">>)

MetadataRuleForms ==
    { NoMetadataRule, TheMetadataRule, MetadataRuleList(<<>>),
      MetadataRuleList(<<TheMetadataRule>>),
      MetadataRuleList(<<TimestampRule, TheMetadataRule>>) }

LogLinePool ==
    { <<>>, <<" ">>, <<"b">>, <<"a", "b">>, <<" ", "b", " ">>, <<"b", "a">>,
      <<"a">>, <<"a", " ", "a">> }

LogFiles == UNION { [1..n -> LogLinePool] : n \in 0..MaxLines }

LogContentRules ==
    { <<>>, <<ContentRule("A", "enclosed", <<PatA>>, <<"g1">>, 10)>> }

InitLog ==
    /\ EngineInit
    /\ contentRules \in LogContentRules
    /\ line = <<>> /\ segments = <<>> /\ pop = "init"
    /\ work = <<>> /\ calls = 0
    /\ metadataRule \in MetadataRuleForms
    /\ logFile \in LogFiles
    /\ parsed = NotParsed
    /\ RuleIdle /\ ProcIdle /\ ConcIdle /\ PlugIdle

ParseLogFile ==
    /\ pop = "init"
    /\ parsed' = ParseLog(logFile, metadataRule, contentRules)
    /\ pop' = "parse_log"
    /\ UNCHANGED <<contentRules, line, segments, metadataRule, logFile, evars, rvars, uvars, kvars, cvars, gvars>>

NextLog == ParseLogFile

SpecLog == InitLog /\ [][NextLog]_vars

(***************************************************************************)
(* Properties of parse_log.                                                *)
(***************************************************************************)
\* The patterns of the metadata rule, or of the metadata rules of a list.
MetaPatterns ==
    IF metadataRule.form = "list"
    THEN UNION { { r.patterns[j] : j \in 1..Len(r.patterns) } : r \in RuleSetOf(metadataRule.rules) }
    ELSE { metadataRule.patterns[j] : j \in 1..Len(metadataRule.patterns) }

LogLine(i) == Strip(logFile[i])
IsMetadataLine(i) == \E p \in MetaPatterns : LogLine(i) # <<>> /\ Occurs(p.lit, LogLine(i), 0)
MetadataLines == { i \in 1..Len(logFile) : IsMetadataLine(i) }
KthMetadataLine(k) ==
    CHOOSE i \in MetadataLines : Cardinality({ j \in MetadataLines : j < i }) = k - 1
LinesOf(i) == { j \in (i + 1)..Len(logFile) : \A x \in (i + 1)..j : x \notin MetadataLines }

\* The segments of the lines of a set, concatenated in line order.
RECURSIVE SegmentsOfLines(_, _)
SegmentsOfLines(js, i) ==
    IF i > Len(logFile) THEN <<>>
    ELSE (IF i \in js THEN Seg(LogLine(i)) ELSE <<>>) \o SegmentsOfLines(js, i + 1)

\* The speaker a metadata line names: the group of the first pattern that matches it.
SpeakerOf(i) == IF Occurs(PatMetaB.lit, LogLine(i), 0) THEN <<"b">> ELSE <<"a">>

EntriesFollowMetadataLines ==
    /\ ~parsed.raised
    /\ Len(parsed.entries) = Cardinality(MetadataLines)
    /\ \A k \in 1..Len(parsed.entries) :
          /\ parsed.entries[k]["speaker"] = SpeakerOf(KthMetadataLine(k))
          /\ parsed.entries[k]["content"] = SegmentsOfLines(LinesOf(KthMetadataLine(k)), 1)

\* C11: parse_log returns one entry per line that matches the metadata rule,
\* in file order, and the content of each entry is the concatenation, in line
\* order, of the segments of exactly the lines after its metadata line and
\* before the next metadata line or the end of the file; the metadata line
\* itself contributes no segment.
C11_EntryPerMetadataLine == pop = "parse_log" => EntriesFollowMetadataLines

\* The same for a rule set whose metadata rule is the single object
\* _match_metadata reads.
ParseLogSingleRule ==
    pop = "parse_log" /\ metadataRule.form # "list" => EntriesFollowMetadataLines

\* The lines before the first metadata line.
LeadingLines == { j \in 1..Len(logFile) : \A x \in 1..j : x \notin MetadataLines }

\* The file without the lines of a set.
RECURSIVE WithoutLines(_, _)
WithoutLines(js, i) ==
    IF i > Len(logFile) THEN <<>>
    ELSE (IF i \in js THEN <<>> ELSE <<logFile[i]>>) \o WithoutLines(js, i + 1)

LeadingContentDropped ==
    /\ ~parsed.raised
    /\ MetadataLines = {} => parsed.entries = <<>>
    /\ parsed.entries =
          ParseLog(WithoutLines(LeadingLines, 1), metadataRule, contentRules).entries
    /\ \A k \in 1..Len(parsed.entries) :
          parsed.entries[k]["content"] = SegmentsOfLines(LinesOf(KthMetadataLine(k)), 1)

\* C21: the content lines before the first metadata line are dropped: the
\* entries returned are those of the file without these lines, each entry
\* holds the segments of the lines after its own metadata line only, and a
\* file without a metadata line yields the empty list.
C21_LeadingContentDropped == pop = "parse_log" => LeadingContentDropped

\* The same for a rule set whose metadata rule is the single object
\* _match_metadata reads.
LeadingContentDroppedSingleRule ==
    pop = "parse_log" /\ metadataRule.form # "list" => LeadingContentDropped

\* A file with segmentable content before its first metadata line, parsed.
LeadingContentParsed ==
    /\ pop = "parse_log" /\ metadataRule.form = "dict" /\ contentRules # <<>>
    /\ MetadataLines # {} /\ \E j \in LeadingLines : LogLine(j) # <<>>
    /\ parsed.entries # <<>>

\* The metadata rules of the rule set, in declaration order.
MetadataRules ==
    IF metadataRule.form = "list" THEN metadataRule.rules
    ELSE IF metadataRule.form = "dict" THEN <<metadataRule>> ELSE <<>>

MatchesAt0(r, j, text) == Occurs(MetadataRules[r].patterns[j].lit, text, 0)

\* The first rule, and its first pattern, that match the text at its start.
WinningRule(text) ==
    CHOOSE r \in 1..Len(MetadataRules) :
        /\ \E j \in 1..Len(MetadataRules[r].patterns) : MatchesAt0(r, j, text)
        /\ \A q \in 1..(r - 1) :
              \A j \in 1..Len(MetadataRules[q].patterns) : ~MatchesAt0(q, j, text)
WinningPattern(r, text) ==
    CHOOSE j \in 1..Len(MetadataRules[r].patterns) :
        MatchesAt0(r, j, text) /\ \A q \in 1..(j - 1) : ~MatchesAt0(r, q, text)

\* The fields of the entry a metadata line opens: the capture groups of the
\* winning match under the group names of the winning rule, position by position.
ExpectedFields(text) ==
    LET r == WinningRule(text)
        p == MetadataRules[r].patterns[WinningPattern(r, text)]
        names == MetadataRules[r].groups
        n == IF Len(names) < Len(p.groups) THEN Len(names) ELSE Len(p.groups)
    IN  [ name \in { names[i] : i \in 1..n } |->
            LET i == CHOOSE i \in 1..n : names[i] = name
            IN  Strip(SubSeq(text, p.groups[i][1], p.groups[i][2])) ]

MetadataInDeclarationOrder ==
    /\ ~parsed.raised
    /\ Len(parsed.entries) = Cardinality(MetadataLines)
    /\ \A k \in 1..Len(parsed.entries) :
          LET e == parsed.entries[k]
              x == ExpectedFields(LogLine(KthMetadataLine(k)))
          IN  /\ DOMAIN e = DOMAIN x \cup {"type", "content"}
              /\ \A name \in DOMAIN x : e[name] = x[name]

\* C22: a line opens an entry when a pattern of a metadata rule matches it at
\* its start; the rules are tried in declaration order and the patterns of a
\* rule in declared order, and the entry's metadata fields are the capture
\* groups of the first match, under the group names of its rule, position by
\* position.
C22_MetadataRulesInOrder == pop = "parse_log" => MetadataInDeclarationOrder

\* The same for a rule set whose metadata rule is the single object
\* _match_metadata reads.
MetadataOfSingleRule ==
    pop = "parse_log" /\ metadataRule.form # "list" => MetadataInDeclarationOrder

(***************************************************************************)
(* One Rule (rules.py, class Rule): the constructor's arguments and a      *)
(* record are drawn; the rule is constructed, asked whether it matches,    *)
(* and applied, each apply call taking the result of the one before.       *)
(***************************************************************************)
MaxApplies == 2

\* re.compile(pattern) raises re.error: an unterminated group
Malformed(p) == Contains(p.lit, "(") /\ ~Contains(p.lit, ")")

\* Rule.__init__ raises: _precompile_patterns compiles the pattern of every
\* "matches" condition that has one
RuleRaises(condition) ==
    \E field \in DOMAIN condition :
        /\ condition[field].kind = "dict" /\ condition[field].type = "matches"
        /\ condition[field].pattern # NoPattern
        /\ Malformed(condition[field].pattern)

MatchesOutcome(r, d) ==
    IF Matches(r, d) THEN "true" ELSE IF MatchesRaises(r, d) THEN "raise" ELSE "false"

StringConditionTypes == {"contains", "starts_with", "ends_with"}
CastConditionTypes == {"greater_than", "less_than"}
Operands == { Text(<<"a">>), Text(<<"5">>), Text(<<"0">>), Text(<<>>), Num(5), NoneVal }
BadPattern == Pattern(<<"(", "a">>, <<>>)

FieldConditions ==
    { CondDict(t, v, <<>>) : t \in StringConditionTypes \cup CastConditionTypes, v \in Operands }
    \cup { CondMatches(p) : p \in {PatA, NoPattern, BadPattern} }
    \cup { CondLiteral(Text(<<"a">>)), CondDict("equals", Num(5), <<>>) }

RuleActions ==
    { Transform("y", "upper"), SetField("hit", Lit("yes")), AddTag("new"), AddTag("") }
    \cup { Transform("x", fn) : fn \in TransformFunctions \cup {"reverse", ""} }
    \cup { SetField("x", v) : v \in {Lit("new"), NoneVal} }
    \cup { AddField("x", v) : v \in {Lit("new"), NoneVal} }

RuleArgs ==
    { NewRule("on_x", [f \in {"x"} |-> c], SetField("hit", Lit("yes")), 50) : c \in FieldConditions }
    \cup { NewRule("always", EmptyDict, a, 50) : a \in RuleActions }

FieldValues ==
    { Text(<<>>), Text(<<"a">>), Text(<<"b", "a">>), Text(<<"a", "ß">>), Text(<<"A", "B">>),
      Text(<<"7">>), Text(<<" ", "7">>), Num(0), Num(7), NoneVal }

\* The lists and the other values a record holds under "tags".
TagLists ==
    { <<>>, <<"old">>, <<"new">>, <<"old", "new", "mid">>, <<"new", "old", "new">> }
TagValues == { Lit("old"), Lit("new"), Num(7), NoneVal }

RuleRecords ==
    { [d |-> Put(EmptyDict, "y", Text(<<"a">>)), h |-> <<>>] }
    \cup { [d |-> Put(Put(EmptyDict, "type", Lit("test")), "x", v), h |-> <<>>] :
              v \in FieldValues }
    \cup { [d |-> Tagged("test", 1), h |-> <<l>>] : l \in TagLists }
    \cup { [d |-> Put(Put(EmptyDict, "type", Lit("test")), "tags", v), h |-> <<>>] : v \in TagValues }

InitRule ==
    /\ EngineInit
    /\ contentRules = <<>> /\ line = <<>> /\ segments = <<>> /\ pop = "init"
    /\ work = <<>> /\ calls = 0
    /\ LogIdle /\ ProcIdle /\ ConcIdle /\ PlugIdle
    /\ ruleObj \in RuleArgs
    /\ ruleData \in RuleRecords
    /\ ruleOp = "init" /\ ruleOut = "" /\ ruleResults = <<>>

\* Rule(name, condition, action, priority)
ConstructRule ==
    /\ ruleOp = "init"
    /\ ruleOp' = IF RuleRaises(ruleObj.condition) THEN "raised" ELSE "constructed"
    /\ UNCHANGED <<ruleObj, ruleData, ruleOut, ruleResults, evars, pvars, rvars, lvars, kvars, cvars, gvars>>

\* rule.matches(data)
CallMatches ==
    /\ ruleOp = "constructed"
    /\ ruleOut' = MatchesOutcome(ruleObj, ruleData.d)
    /\ ruleOp' = "matches"
    /\ UNCHANGED <<ruleObj, ruleData, ruleResults, evars, pvars, rvars, lvars, kvars, cvars, gvars>>

\* rule.apply(data), data being the record drawn or what the last apply
\* returned; a call that raises returns nothing
CallApply ==
    /\ ruleOp \in {"constructed", "apply"}
    /\ Len(ruleResults) < MaxApplies
    /\ LET cur == IF ruleResults = <<>> THEN [result |-> ruleData.d, heap |-> ruleData.h]
                  ELSE ruleResults[Len(ruleResults)]
       IN  IF ApplyRaises(ruleObj, cur.result)
           THEN ruleOp' = "apply_raised" /\ UNCHANGED ruleResults
           ELSE /\ ruleResults' = Append(ruleResults, Apply(ruleObj, cur.result, cur.heap))
                /\ ruleOp' = "apply"
    /\ UNCHANGED <<ruleObj, ruleData, ruleOut, evars, pvars, rvars, lvars, kvars, cvars, gvars>>

NextRule == ConstructRule \/ CallMatches \/ CallApply

SpecRule == InitRule /\ [][NextRule]_vars

(***************************************************************************)
(* Properties of one rule.                                                 *)
(***************************************************************************)
\* The one condition of the rule, on the field "x", if it has one.
OnField == ruleObj.condition["x"]
FieldAbsent == DOMAIN ruleObj.condition = {"x"} /\ ~Has(ruleData.d, "x")

\* C12: on a record in which the condition's field is absent, greater_than,
\* less_than, contains, matches, starts_with and ends_with are false and
\* Rule.matches returns without raising, whatever the operand is.
C12_AbsentFieldIsFalse ==
    ruleOp = "matches" /\ FieldAbsent /\ OnField.kind = "dict"
        /\ OnField.type \in StringConditionTypes \cup CastConditionTypes \cup {"matches"}
    => ruleOut = "false"

\* A matches call on a record without the field, for a cast condition and for
\* a string condition whose operand is not a str.
C12_Witness ==
    /\ ruleOp = "matches" /\ FieldAbsent /\ ruleOut = "false"
    /\ OnField.type \in {"greater_than", "contains"}
    /\ OnField.value = Num(5)

\* e is a substring, a prefix, a suffix of t.
IsSubstring(e, t) == \E i \in 0..(Len(t) - Len(e)) : SubSeq(t, i + 1, i + Len(e)) = e
IsPrefix(e, t) == Len(e) <= Len(t) /\ \A k \in 1..Len(e) : t[k] = e[k]
IsSuffix(e, t) == Len(e) <= Len(t) /\ \A k \in 1..Len(e) : t[Len(t) - Len(e) + k] = e[k]

\* The test of a text condition on the string form of a value.
TextTest(c, t) ==
    CASE c.type = "contains" -> IsSubstring(Str(c.value), t)
      [] c.type = "starts_with" -> IsPrefix(Str(c.value), t)
      [] c.type = "ends_with" -> IsSuffix(Str(c.value), t)
      [] c.type = "matches" -> IsSubstring(c.pattern.lit, t)

\* A matches call of a rule whose one condition is a text condition on "x",
\* with a str operand or a compiled pattern.
TextConditionChecked ==
    /\ ruleOp = "matches" /\ DOMAIN ruleObj.condition = {"x"} /\ OnField.kind = "dict"
    /\ \/ OnField.type \in StringConditionTypes /\ OnField.value.kind = "text"
       \/ OnField.type = "matches" /\ OnField.pattern # NoPattern

TextTestOutcome ==
    IF Has(ruleData.d, "x") /\ TextTest(OnField, Str(ruleData.d["x"])) THEN "true" ELSE "false"

\* C23: a contains, starts_with, ends_with or matches condition is false when
\* the field is missing, and for every present value, 0 and the empty string
\* included, it is the substring, prefix, suffix or pattern-search test of
\* the operand on the string form of the value.
C23_FalseOnlyWhenMissing == TextConditionChecked => ruleOut = TextTestOutcome

\* The same for the values Python takes for true.
TextTestOnTruthyValue ==
    TextConditionChecked /\ (Has(ruleData.d, "x") => Truthy(ruleData.d["x"]))
    => ruleOut = TextTestOutcome

\* contains "0" checked on the value 0.
ContainsZeroOnZero ==
    /\ TextConditionChecked /\ OnField.type = "contains" /\ OnField.value = Text(<<"0">>)
    /\ Has(ruleData.d, "x") /\ ruleData.d["x"] = Num(0)
    /\ ruleOut = "false"

\* The rule drawn is an add_tag rule with a tag.
AddTagRule == ruleObj.action.type = "add_tag" /\ ruleObj.action.tag # ""

\* The tags of the record drawn (none when it has no "tags"), and those of
\* the record the k-th apply returned.
IsList(d, f) == Has(d, f) /\ d[f].kind = "ref"
TagsBefore == IF Has(ruleData.d, "tags") THEN ruleData.h[ruleData.d["tags"].ref] ELSE <<>>
TagsAfter(k) == ruleResults[k].heap[ruleResults[k].result["tags"].ref]
Count(l, x) == Cardinality({ i \in 1..Len(l) : l[i] = x })

AddTagSetLike ==
    /\ ruleOp # "apply_raised"
    /\ Len(ruleResults) >= 1 =>
          /\ IsList(ruleResults[1].result, "tags")
          /\ SubSeq(TagsAfter(1), 1, Len(TagsBefore)) = TagsBefore
          /\ TagsAfter(1) \in {TagsBefore, Append(TagsBefore, ruleObj.action.tag)}
          /\ Count(TagsBefore, ruleObj.action.tag) <= 1
                => Count(TagsAfter(1), ruleObj.action.tag) = 1
          /\ Del(ruleResults[1].result, "tags") = Del(ruleData.d, "tags")
    /\ Len(ruleResults) = 2 =>
          Deep(ruleResults[2].result, ruleResults[2].heap)
            = Deep(ruleResults[1].result, ruleResults[1].heap)

\* C24: add_tag applied to any record returns a record whose "tags" is a list
\* that holds the tag once when the record held it at most once, with the
\* tags the record had in their order and a new tag last; applying the same
\* action to the result changes nothing.
C24_AddTagSetLike == AddTagRule => AddTagSetLike

\* The same for the records whose "tags" is absent or a list.
AddTagSetLikeOnLists ==
    AddTagRule /\ (Has(ruleData.d, "tags") => IsList(ruleData.d, "tags")) => AddTagSetLike

\* add_tag "new" applied twice to a record tagged "old": the list is
\* <<"old", "new">> after the first apply and after the second.
AddTagAppliedTwice ==
    /\ AddTagRule /\ Len(ruleResults) = 2 /\ TagsBefore = <<"old">>
    /\ TagsAfter(1) = <<"old", "new">> /\ TagsAfter(2) = <<"old", "new">>

\* add_tag "new" raised on a record whose "tags" is the str "old".
AddTagRaisedOnStr ==
    AddTagRule /\ ruleOp = "apply_raised" /\ ruleData.d["tags"] = Lit("old")

\* The record the k-th apply call was given.
Applied(k) == IF k = 1 THEN ruleData.d ELSE ruleResults[k - 1].result

\* float() and int() fail on None and on a text that is not a number.
IsNumber(v) ==
    \/ v.kind = "num"
    \/ /\ v.kind = "text" /\ Strip(v.chars) # <<>>
       /\ \A i \in 1..Len(Strip(v.chars)) : Contains(Digits, Strip(v.chars)[i])
FunctionFails(fn, v) == fn \in {"int", "float"} /\ ~IsNumber(v)

TransformKeeps(k) ==
    LET f == ruleObj.action.field
        fn == ruleObj.action.function
        d == Applied(k)
        r == ruleResults[k].result
    IN  /\ ~Has(d, f) => r = d
        /\ DOMAIN r = DOMAIN d
        /\ \A g \in DOMAIN d \ {f} : r[g] = d[g]
        /\ Has(d, f) /\ (fn \notin TransformFunctions \/ FunctionFails(fn, d[f]))
              => r[f] = d[f]

\* C25: applying a transform rule never raises; when the function name is
\* none of upper, lower, strip, int, float, len, or the function fails on the
\* value of the field, the record returned holds the value the field had,
\* every other field is as it was, and a record without the field is
\* returned as it is.
C25_TransformNeverRaises ==
    ruleObj.action.type = "transform"
    => /\ ruleOp # "apply_raised"
       /\ \A k \in 1..Len(ruleResults) : TransformKeeps(k)

\* int applied to the text "a", which is no number: the field still holds "a".
C25_Witness ==
    /\ ruleObj.action.type = "transform" /\ ruleObj.action.function = "int"
    /\ ruleOp = "apply" /\ Has(ruleData.d, "x") /\ ruleData.d["x"] = Text(<<"a">>)
    /\ ruleResults[1].result["x"] = Text(<<"a">>)
    /\ ruleResults[1].result["type"] = Lit("test")

\* What the k-th apply of a set_field or add_field rule did to its record.
FieldWritten(k) ==
    LET a == ruleObj.action
        d == Applied(k)
        r == ruleResults[k].result
    IN  /\ DOMAIN r = DOMAIN d \cup {a.field}
        /\ \A g \in DOMAIN d \ {a.field} : r[g] = d[g]
        /\ a.type = "set_field" => r[a.field] = a.value
        /\ a.type = "add_field" =>
              r[a.field] = IF Has(d, a.field) THEN d[a.field] ELSE a.value
        /\ ruleResults[k].heap = (IF k = 1 THEN ruleData.h ELSE ruleResults[k - 1].heap)

\* C26: after set_field the field holds the action's value, whatever it held;
\* after add_field it holds the action's value if it was absent and the value
\* it had otherwise; every other field is as it was.
C26_SetFieldVersusAddField ==
    ruleObj.action.type \in {"set_field", "add_field"}
    => /\ ruleOp # "apply_raised"
       /\ \A k \in 1..Len(ruleResults) : FieldWritten(k)

\* add_field "x" on a record that holds 7 under "x" left the 7, beside "type".
C26_Witness ==
    /\ ruleObj.action = AddField("x", Lit("new")) /\ ruleOp = "apply"
    /\ Has(ruleData.d, "x") /\ ruleData.d["x"] = Num(7)
    /\ ruleResults[1].result["x"] = Num(7)
    /\ ruleResults[1].result["type"] = Lit("test")

\* set_field "x" on the same record wrote its value; on a record without "x"
\* add_field wrote it too.
SetFieldOverwrote ==
    /\ ruleObj.action = SetField("x", Lit("new")) /\ ruleOp = "apply"
    /\ Has(ruleData.d, "x") /\ ruleData.d["x"] = Num(7)
    /\ ruleResults[1].result["x"] = Lit("new")
AddFieldOnAbsent ==
    /\ ruleObj.action = AddField("x", Lit("new")) /\ ruleOp = "apply"
    /\ ~Has(ruleData.d, "x") /\ ruleResults[1].result["x"] = Lit("new")

(***************************************************************************)
(* Processor (processor.py): its rule engine loaded from a configuration,  *)
(* its custom processors, process_tokens and apply_rules.  The tokens of   *)
(* the pool are flat records (no list values).                             *)
(***************************************************************************)
MaxHooks == 2
MaxTokens == 2

True == [kind |-> "bool", bool |-> TRUE]

\* Processor._load_rules_to_engine from rule i on: add_rule_dict for each rule
\* dict; a rule whose construction raises is logged and left out
RECURSIVE LoadRulesToEngine(_, _, _)
LoadRulesToEngine(config, i, rs) ==
    IF i > Len(config) THEN rs
    ELSE LoadRulesToEngine(config, i + 1,
            IF RuleRaises(config[i].condition) THEN rs
            ELSE Append(rs, [config[i] EXCEPT !.id = Len(rs) + 1]))

\* A custom processor called with processed, which is a dict or (isdict false)
\* None: what it returns, or that it raised.  "mark" and "stamp" set a field of
\* the record they are given, "none" returns None, "fail" raises.
CallHook(hook, processed) ==
    CASE hook = "fail" -> [raised |-> TRUE, value |-> processed]
      [] hook = "none" -> [raised |-> FALSE, value |-> [isdict |-> FALSE, d |-> EmptyDict]]
      [] hook = "mark" ->
            IF processed.isdict
            THEN [raised |-> FALSE, value |-> [processed EXCEPT !.d = Put(@, "hook", Lit("done"))]]
            ELSE [raised |-> TRUE, value |-> processed]
      [] hook = "stamp" ->
            IF processed.isdict
            THEN [raised |-> FALSE, value |-> [processed EXCEPT !.d = Put(@, "timestamp", Lit("t0"))]]
            ELSE [raised |-> TRUE, value |-> processed]

\* The loop over self.custom_processors: a processor that raises is logged
\* and processed stays what it was
RECURSIVE RunHooks(_, _, _)
RunHooks(hooks, i, processed) ==
    IF i > Len(hooks) THEN processed
    ELSE LET c == CallHook(hooks[i], processed) IN
         RunHooks(hooks, i + 1, IF c.raised THEN processed ELSE c.value)

MarkProcessedNever(d) == d

\* if "timestamp" in processed: processed["processed"] = True
MarkProcessed(d) == IF Has(d, "timestamp") THEN Put(d, "processed", True) ELSE d

\* Processor.process_single_token with the engine's rules rs in sorted order:
\* the token it returns, or that it raised (a condition of a visited rule
\* raised, or "timestamp" in processed was asked of None)
ProcessSingleToken(rs, hooks, token, all) ==
    LET st == ProcessLoop(rs, 1,
                          [result |-> token, heap |-> <<>>, visited |-> <<>>,
                           applied |-> <<>>, seen |-> <<>>], token, all)
        raisedInRules == \E k \in 1..Len(st.visited) : MatchesRaises(rs[k], st.seen[k].result)
        processed == RunHooks(hooks, 1, [isdict |-> TRUE, d |-> st.result])
    IN  IF raisedInRules \/ ~processed.isdict THEN [raised |-> TRUE, token |-> EmptyDict]
        ELSE [raised |-> FALSE, token |-> MarkProcessed(processed.d)]

OnTokenErrorSkip(out, token) == out

\* except Exception: processed_data.append(token)
OnTokenError(out, token) == Append(out, token)

\* The loop of Processor.process_tokens from token i on.
RECURSIVE ProcessTokensLoop(_, _, _, _, _, _)
ProcessTokensLoop(rs, hooks, tokens, i, out, all) ==
    IF i > Len(tokens) THEN out
    ELSE LET r == ProcessSingleToken(rs, hooks, tokens[i], all) IN
         ProcessTokensLoop(rs, hooks, tokens, i + 1,
                           IF r.raised THEN OnTokenError(out, tokens[i])
                           ELSE Append(out, r.token),
                           all)

(***************************************************************************)
(* The inputs and operations of the Processor: it is constructed, custom    *)
(* processors are added, and after each of these steps a call is made.     *)
(***************************************************************************)
OnContent(c) == [f \in {"content"} |-> c]

ConfigRules ==
    [tag |-> NewRule("tag_a", OnContent(CondDict("contains", Text(<<"a">>), <<>>)),
                     SetField("kind", Lit("has_a")), 50),
     operand |-> NewRule("bad_operand", OnContent(CondDict("contains", Num(5), <<>>)),
                         SetField("kind", Lit("five")), 90),
     pattern |-> NewRule("bad_pattern", OnContent(CondMatches(BadPattern)),
                         SetField("kind", Lit("group")), 90),
     all |-> NewRule("all", EmptyDict, SetField("seen", Lit("yes")), 10)]

Configs ==
    { <<>>, <<ConfigRules.tag>>, <<ConfigRules.operand>>, <<ConfigRules.pattern>>,
      <<ConfigRules.pattern, ConfigRules.tag>>, <<ConfigRules.all, ConfigRules.operand>> }

Hooks == {"mark", "stamp", "fail", "none"}

Tokens ==
    { Put(Put(EmptyDict, "timestamp", Lit("t1")), "content", Text(<<"a">>)),
      Put(Put(EmptyDict, "timestamp", Lit("t2")), "content", Text(<<>>)),
      Put(EmptyDict, "content", Text(<<"b", "a">>)),
      Put(EmptyDict, "type", Lit("test")) }

TokenLists == UNION { [1..n -> Tokens] : n \in 0..MaxTokens }

InitProc ==
    /\ EngineInit
    /\ contentRules = <<>> /\ line = <<>> /\ segments = <<>> /\ pop = "init"
    /\ work = <<>> /\ calls = 0
    /\ LogIdle /\ RuleIdle /\ ConcIdle /\ PlugIdle
    /\ procConfig \in Configs
    /\ procRules = <<>> /\ procSorted = FALSE /\ procHooks = <<>>
    /\ procOp = "init" /\ procTokens = <<>> /\ procAll = FALSE /\ procOut = <<>>
    /\ procRaised = <<>>

\* Processor(rules): no exception leaves the constructor
ConstructProcessor ==
    /\ procOp = "init"
    /\ procRules' = LoadRulesToEngine(procConfig, 1, <<>>)
    /\ procSorted' = FALSE
    /\ procOp' = "constructed"
    /\ UNCHANGED <<procConfig, procHooks, procTokens, procAll, procOut, procRaised,
                   evars, pvars, rvars, lvars, uvars, cvars, gvars>>

\* Processor.add_processor
AddProcessor(hook) ==
    /\ procOp # "init"
    /\ Len(procHooks) < MaxHooks
    /\ procHooks' = Append(procHooks, hook)
    /\ procOp' = "add_processor"
    /\ procTokens' = <<>> /\ procAll' = FALSE /\ procOut' = <<>> /\ procRaised' = <<>>
    /\ UNCHANGED <<procConfig, procRules, procSorted, evars, pvars, rvars, lvars, uvars, cvars, gvars>>

\* Processor.process_tokens
ProcessTokens(tokens, all) ==
    LET rs == EnsureSorted(procRules, procSorted) IN
    /\ procOp \in {"constructed", "add_processor"}
    /\ procOut' = ProcessTokensLoop(rs, procHooks, tokens, 1, <<>>, all)
    /\ procRaised' = [i \in 1..Len(tokens) |->
                        ProcessSingleToken(rs, procHooks, tokens[i], all).raised]
    /\ procTokens' = tokens /\ procAll' = all
    /\ procRules' = IF tokens # <<>> THEN rs ELSE procRules
    /\ procSorted' = IF tokens # <<>> /\ Len(procRules) > 0 THEN TRUE ELSE procSorted
    /\ procOp' = "process_tokens"
    /\ UNCHANGED <<procConfig, procHooks, evars, pvars, rvars, lvars, uvars, cvars, gvars>>

\* Processor.apply_rules
ApplyRules(token) ==
    LET rs == EnsureSorted(procRules, procSorted)
        r == ProcessSingleToken(rs, procHooks, token, FALSE)
    IN  /\ procOp \in {"constructed", "add_processor"}
        /\ procOut' = IF r.raised THEN <<>> ELSE <<r.token>>
        /\ procRaised' = <<r.raised>>
        /\ procTokens' = <<token>> /\ procAll' = FALSE
        /\ procRules' = rs
        /\ procSorted' = IF Len(procRules) > 0 THEN TRUE ELSE procSorted
        /\ procOp' = "apply_rules"
        /\ UNCHANGED <<procConfig, procHooks, evars, pvars, rvars, lvars, uvars, cvars, gvars>>

NextProc ==
    \/ ConstructProcessor
    \/ \E hook \in Hooks : AddProcessor(hook)
    \/ \E tokens \in TokenLists, all \in BOOLEAN : ProcessTokens(tokens, all)
    \/ \E token \in Tokens : ApplyRules(token)

SpecProc == InitProc /\ [][NextProc]_vars

(***************************************************************************)
(* Properties of the Processor.                                            *)
(***************************************************************************)
\* What process_single_token does with one token of the last call, run on its own.
Alone(i) ==
    ProcessSingleToken(SortByPriorityDesc(procRules), procHooks, procTokens[i], procAll)

\* C13: process_tokens returns a list of the length and order of its input;
\* a position whose token raised during rule or hook processing holds the
\* original token, every other position the processed result of its own token.
C13_BatchNeverAborts ==
    procOp = "process_tokens" =>
        /\ Len(procOut) = Len(procTokens)
        /\ \A i \in 1..Len(procOut) :
              /\ procRaised[i] = Alone(i).raised
              /\ procOut[i] = IF Alone(i).raised THEN procTokens[i] ELSE Alone(i).token

\* A batch whose first token raised and whose second token was changed.
C13_Witness ==
    /\ procOp = "process_tokens" /\ Len(procTokens) = 2
    /\ procRaised = <<TRUE, FALSE>>
    /\ procOut[1] = procTokens[1]
    /\ procOut[2] # procTokens[2]

Flagged(token) == Has(token, "timestamp") => Get(token, "processed") = True

\* C14 as stated: every token returned by process_tokens or apply_rules that
\* contains a timestamp has processed == True.
C14_StampedAreProcessed ==
    procOp \in {"process_tokens", "apply_rules"} =>
        \A i \in 1..Len(procOut) : Flagged(procOut[i])

\* C14: every token returned by apply_rules, and every token at a position of
\* process_tokens whose processing did not raise, that contains a timestamp
\* has processed == True; a position whose processing raised holds the
\* original token, without a flag added.
C14_StampedAreProcessedUnlessRaised ==
    /\ procOp = "apply_rules" => \A i \in 1..Len(procOut) : Flagged(procOut[i])
    /\ procOp = "process_tokens" =>
          \A i \in 1..Len(procOut) :
              IF procRaised[i] THEN procOut[i] = procTokens[i] ELSE Flagged(procOut[i])

\* A batch processed with a custom processor that raises: one token raised out
\* of process_single_token and is returned with its timestamp and no flag, one
\* did not and is flagged.
C14_Witness ==
    /\ procOp = "process_tokens" /\ Contains(procHooks, "fail")
    /\ \E i, j \in 1..Len(procOut) :
          /\ procRaised[i] /\ Has(procOut[i], "timestamp") /\ ~Has(procOut[i], "processed")
          /\ ~procRaised[j] /\ Has(procOut[j], "timestamp")
          /\ Get(procOut[j], "processed") = True

\* C17: a malformed pattern in a matches condition is an error of the
\* operation that constructs the rule: Rule(...) raises, and Processor(rules)
\* raises for a configuration that holds such a rule, so that no Processor
\* exists for it.
C17_MalformedPatternPropagates ==
    /\ ruleOp # "init" /\ RuleRaises(ruleObj.condition) => ruleOp = "raised"
    /\ (\E i \in 1..Len(procConfig) : RuleRaises(procConfig[i].condition))
          => procOp \in {"init", "raised"}

(***************************************************************************)
(* Properties of process_batch and of the sort cache.                      *)
(***************************************************************************)
\* process(batch[i], applyAll) computed alone, on the records as they were passed.
AloneInBatch(i) ==
    ProcessLoop(SortByPriorityDesc(rules), 1,
                [result |-> batch[i], heap |-> heap0, visited |-> <<>>, applied |-> <<>>,
                 seen |-> <<>>], batch[i], applyAll)

\* C15: process_batch returns a list of the length of its input whose i-th
\* element equals process(records[i], apply_all) computed alone, whatever the
\* other records of the batch and their order.
C15_BatchRecordWise ==
    op = "process_batch" =>
        /\ Len(batchRet) = Len(batch)
        /\ \A i \in 1..Len(batchRet) :
              Deep(batchRet[i], heap) = Deep(AloneInBatch(i).result, AloneInBatch(i).heap)

\* C20: in every state reachable through add_rule, add_rule_dict, clear_rules,
\* process, process_batch and find_matching_rules, a set sorted flag means a
\* rule list ordered by priority descending; add_rule and clear_rules leave
\* the flag false, process and find_matching_rules leave it true.
C20_SortCache ==
    /\ sorted =>
        \A i \in 1..Len(rules) : \A j \in 1..Len(rules) :
            i < j => rules[i].priority >= rules[j].priority
    /\ op \in {"add_rule", "clear_rules"} => ~sorted
    /\ op \in {"process", "find_matching_rules"} => sorted

\* A rule added to a list that a call had sorted: the list is out of order
\* and the flag is false.
C20_Witness ==
    /\ op = "add_rule" /\ resorts >= 1 /\ ~sorted
    /\ \E i \in 1..(Len(rules) - 1) : rules[i].priority < rules[i + 1].priority

(***************************************************************************)
(* Properties of the transform action.                                     *)
(***************************************************************************)
UpperOnPresentField ==
    /\ ruleObj.action.type = "transform" /\ ruleObj.action.function = "upper"
    /\ Has(ruleData.d, ruleObj.action.field)

\* C19: for every record in which the field is present, applying an "upper"
\* transform rule twice gives the same record as applying it once.
C19_UpperIdempotent ==
    Len(ruleResults) = 2 /\ UpperOnPresentField => ruleResults[2] = ruleResults[1]

\* "aß" becomes "ASS" with the first apply and stays "ASS" with the second.
C19_Witness ==
    /\ Len(ruleResults) = 2 /\ UpperOnPresentField
    /\ ruleData.d["x"] = Text(<<"a", "ß">>)
    /\ ruleResults[1].result["x"] = Text(<<"A", "S", "S">>)
    /\ ruleResults[2].result["x"] = Text(<<"A", "S", "S">>)

(***************************************************************************)
(* Parser.load_rules followed by _parse_line_content: the rule file may    *)
(* hold content rules that lack "type" or "match_type".                    *)
(***************************************************************************)
LoadableRules ==
    { ContentRule("A", "enclosed", <<PatA>>, <<"g1">>, 10),
      ContentRule(Missing, "enclosed", <<PatA>>, <<"g1">>, 10),
      ContentRule("B", Missing, <<PatB>>, <<>>, 90),
      ContentRule("B", "regex", <<PatB>>, <<>>, 90) }

RuleFiles == UNION { [1..n -> LoadableRules] : n \in 0..MaxContentRules }

\* Parser.load_rules on a file that holds a rule set: any rule set is stored
LoadRules(rs) ==
    /\ pop = "init"
    /\ contentRules' = rs
    /\ pop' = "load_rules"
    /\ UNCHANGED <<line, segments, evars, rvars, xvars>>

\* Parser.load_rules on a file that holds null: ValueError
LoadNull ==
    /\ pop = "init"
    /\ pop' = "rejected"
    /\ UNCHANGED <<contentRules, line, segments, evars, rvars, xvars>>

\* Parser._parse_line_content under the loaded rules
ParseLoaded(text) ==
    /\ pop = "load_rules"
    /\ line' = text
    /\ segments' = ParseLineContent(text, contentRules)
    /\ pop' = "parse"
    /\ UNCHANGED <<contentRules, evars, rvars, xvars>>

NextLoad ==
    \/ \E rs \in RuleFiles : LoadRules(rs)
    \/ LoadNull
    \/ \E text \in Texts : ParseLoaded(text)

SpecLoad == Init /\ [][NextLoad]_vars

\* C16: a content rule that lacks its type or its match discipline is
\* rejected when the rule set is loaded, before any parse call, so that
\* _parse_line_content never fails at parse time on a rule of the set.
C16_MalformedRuleRejectedAtLoad ==
    /\ pop \in {"load_rules", "parse"} =>
          \A k \in 1..Len(contentRules) :
              contentRules[k].type # Missing /\ contentRules[k].match_type # Missing
    /\ pop = "parse" => ~Raised(segments)

\* Under a rule set that load_rules stored, _parse_line_content raised.
ParseLoadedRaises == pop = "parse" /\ Raised(segments)

(***************************************************************************)
(* Concurrent process calls on one RuleEngine (rules.py, _ensure_sorted    *)
(* and process), one step per point at which CPython may switch threads.   *)
(* list.sort(key=...) takes the items out of the list, which appears empty *)
(* to every reader until the sort puts them back in order; the key         *)
(* function is Python code, so other threads run while the list is empty.  *)
(* The sort of a list that appears empty calls no key function and is one  *)
(* step.                                                                   *)
(***************************************************************************)
Threads == {1, 2}

WithIds(rs) == [i \in 1..Len(rs) |-> [rs[i] EXCEPT !.id = i]]

SetterRules ==
    [low |-> NewRule("low_priority", TypeIs("test"), SetField("processed_by", Lit("low")), 10),
     high |-> NewRule("high_priority", TypeIs("test"), SetField("processed_by", Lit("high")), 100),
     chat |-> NewRule("chat", TypeIs("chat"), SetField("processed_by", Lit("chat")), 50)]

SharedRuleLists ==
    { WithIds(<<SetterRules.low, SetterRules.high>>),
      WithIds(<<SetterRules.high, SetterRules.low>>),
      WithIds(<<SetterRules.low, SetterRules.chat, SetterRules.high>>) }

SharedRecords == { Put(EmptyDict, "type", Lit(t)) : t \in {"test", "chat"} }

\* A thread about to call process(data, all).
Call(d, all) ==
    [pc |-> "call", data |-> d, all |-> all, saved |-> <<>>, result |-> EmptyDict, i |-> 0]

InitConc ==
    /\ EngineInit
    /\ contentRules = <<>> /\ line = <<>> /\ segments = <<>> /\ pop = "init"
    /\ work = <<>> /\ calls = 0
    /\ LogIdle /\ RuleIdle /\ ProcIdle /\ PlugIdle
    /\ concRules0 \in SharedRuleLists
    /\ concSorted \in BOOLEAN
    /\ concRules = IF concSorted THEN SortByPriorityDesc(concRules0) ELSE concRules0
    /\ \E all \in BOOLEAN : threads \in [Threads -> { Call(d, all) : d \in SharedRecords }]

\* if not self._sorted:
CheckSorted(t) ==
    /\ threads[t].pc = "call"
    /\ threads' = [threads EXCEPT ![t].pc = IF concSorted THEN "copy" ELSE "sort"]
    /\ UNCHANGED <<concRules, concSorted, concRules0, evars, pvars, rvars, lvars, uvars, kvars, gvars>>

\* self.rules.sort(...) begins: the items leave the list
BeginSort(t) ==
    /\ threads[t].pc = "sort"
    /\ threads' = [threads EXCEPT ![t].saved = concRules,
                                  ![t].pc = IF concRules = <<>> THEN "sorted" ELSE "keys"]
    /\ concRules' = <<>>
    /\ UNCHANGED <<concSorted, concRules0, evars, pvars, rvars, lvars, uvars, kvars, gvars>>

\* self.rules.sort(...) ends: the items are back, in order
EndSort(t) ==
    /\ threads[t].pc = "keys"
    /\ concRules' = SortByPriorityDesc(threads[t].saved)
    /\ threads' = [threads EXCEPT ![t].pc = "sorted"]
    /\ UNCHANGED <<concSorted, concRules0, evars, pvars, rvars, lvars, uvars, kvars, gvars>>

\* self._sorted = True
SetSorted(t) ==
    /\ threads[t].pc = "sorted"
    /\ concSorted' = TRUE
    /\ threads' = [threads EXCEPT ![t].pc = "copy"]
    /\ UNCHANGED <<concRules, concRules0, evars, pvars, rvars, lvars, uvars, kvars, gvars>>

\* result = data.copy(), and the iterator of "for rule in self.rules"
CopyData(t) ==
    /\ threads[t].pc = "copy"
    /\ threads' = [threads EXCEPT ![t].result = threads[t].data, ![t].i = 1, ![t].pc = "loop"]
    /\ UNCHANGED <<concRules, concSorted, concRules0, evars, pvars, rvars, lvars, uvars, kvars, gvars>>

\* One turn of the loop of process: the iterator reads the list as it is now
LoopTurn(t) ==
    LET th == threads[t] IN
    /\ th.pc = "loop"
    /\ threads' =
        IF th.i > Len(concRules) THEN [threads EXCEPT ![t].pc = "done"]
        ELSE IF Matches(concRules[th.i], th.result)
        THEN [threads EXCEPT ![t].result = Apply(concRules[th.i], th.result, <<>>).result,
                             ![t].i = th.i + 1,
                             ![t].pc = IF StopAfterMatch(th.all) THEN "done" ELSE "loop"]
        ELSE [threads EXCEPT ![t].i = th.i + 1]
    /\ UNCHANGED <<concRules, concSorted, concRules0, evars, pvars, rvars, lvars, uvars, kvars, gvars>>

NextConc ==
    \/ \E t \in Threads : CheckSorted(t)
    \/ \E t \in Threads : BeginSort(t)
    \/ \E t \in Threads : EndSort(t)
    \/ \E t \in Threads : SetSorted(t)
    \/ \E t \in Threads : CopyData(t)
    \/ \E t \in Threads : LoopTurn(t)

SpecConc == InitConc /\ [][NextConc]_vars

\* process(data, all) of thread t run alone on the engine.
AloneResult(t) ==
    ProcessLoop(SortByPriorityDesc(concRules0), 1,
                [result |-> threads[t].data, heap |-> <<>>, visited |-> <<>>,
                 applied |-> <<>>, seen |-> <<>>], threads[t].data, threads[t].all).result

\* C18: with no add_rule or clear_rules in flight, every interleaving of
\* concurrent process calls on one RuleEngine gives each call the result it
\* returns when run alone, also when the calls begin with the sorted flag
\* cleared.
C18_ConcurrentReadersSafe ==
    \A t \in Threads : threads[t].pc = "done" => threads[t].result = AloneResult(t)

(***************************************************************************)
(* process on an engine whose rules may leave the record as it is: rules   *)
(* of the pool are added, then records are processed.                      *)
(***************************************************************************)
UnknownAction == [NoAction EXCEPT !.isdict = TRUE, !.type = "explode"]

\* On a record of type "test" tagged "old", without "gone": actions that
\* change nothing, at the top priority; rules that do change it, below; a rule
\* above them all that does not match.
IdleActions ==
    { UnknownAction, NoAction, AddField("type", Lit("chat")), RemoveField("gone"),
      CopyField("gone", "type"), Transform("gone", "upper"), AddTag("old") }
BlockRulePool ==
    { NewRule("idle", TypeIs("test"), a, 100) : a \in IdleActions }
    \cup { NewRule("low_priority", TypeIs("test"), SetField("processed_by", Lit("low")), 10),
           NewRule("chat_only", TypeIs("chat"), SetField("type", Lit("test")), 200) }

BlockRecords ==
    { [d |-> Tagged("test", 1), h |-> << <<"old">> >>],
      [d |-> Put(EmptyDict, "type", Lit("test")), h |-> <<>>] }

NextBlock ==
    \/ \E r \in BlockRulePool : AddRule(r)
    \/ \E in \in BlockRecords, all \in BOOLEAN : Process(in.d, in.h, all)

SpecBlock == Init /\ [][NextBlock]_vars

\* The action of the rule changes nothing on the record: its type is not one
\* of the six, or it is an add_field on a field the record has, a
\* remove_field, copy_field or transform on a field it has not, or an add_tag
\* of a tag it has.
ChangesNothing(rule, d, h) ==
    LET a == rule.action IN
    \/ ~a.isdict
    \/ a.type \notin {"set_field", "add_field", "remove_field", "transform", "add_tag",
                      "copy_field"}
    \/ a.type = "add_field" /\ Has(d, a.field)
    \/ a.type \in {"remove_field", "transform"} /\ ~Has(d, a.field)
    \/ a.type = "copy_field" /\ ~Has(d, a.source)
    \/ a.type = "add_tag" /\ IsList(d, "tags") /\ Contains(h[d["tags"].ref], a.tag)

\* C29: with apply_all = false, when the first matching rule in priority
\* order has an action that changes nothing on the record, process returns a
\* record equal to the input and applies no other rule, whatever rules match
\* after it.
C29_IdleRuleBlocks ==
    op = "process" /\ ~applyAll /\ MatchingRules # {}
        /\ ChangesNothing(BestMatch, data, heap0)
    => /\ Deep(ret, heap) = Deep(data, heap0)
       /\ applied = <<BestMatch.id>>

\* An add_tag of a tag the record has came first and kept a set_field rule
\* from the record; a rule of higher priority that does not match was passed
\* over.
C29_Witness ==
    /\ op = "process" /\ ~applyAll /\ Len(rules) = 3
    /\ BestMatch.action = AddTag("old") /\ ChangesNothing(BestMatch, data, heap0)
    /\ \E r \in MatchingRules : r.action.type = "set_field" /\ ~ChangesNothing(r, data, heap0)
    /\ \E r \in RuleSetOf(rules) : r.priority > BestMatch.priority /\ ~Matches(r, data)
    /\ ret = data /\ applied = <<BestMatch.id>>

(***************************************************************************)
(* PluginManager (plugins/plugin_manager.py) and the Plugin objects it is  *)
(* given (plugins/base.py).  A plugin records the callbacks it receives.   *)
(***************************************************************************)
MaxCallbacks == 3

\* Three Plugin objects; the first two were constructed with the same name.
PluginObjects == {1, 2, 3}
PluginName(o) == IF o = 3 THEN "b" ELSE "a"
PluginNames == {"a", "b"}

\* Plugin.__init__ sets enabled; the manager holds no plugin.
InitPlugins ==
    /\ EngineInit
    /\ contentRules = <<>> /\ line = <<>> /\ segments = <<>> /\ pop = "init"
    /\ work = <<>> /\ calls = 0
    /\ LogIdle /\ RuleIdle /\ ProcIdle /\ ConcIdle
    /\ plugins = EmptyDict
    /\ enabled = [o \in PluginObjects |-> TRUE]
    /\ callbacks = [o \in PluginObjects |-> <<>>]
    /\ plugOp = "init"

\* plugin.on_enable() / plugin.on_disable() on each object of a set
Called(os, callback) ==
    /\ \A o \in os : Len(callbacks[o]) < MaxCallbacks
    /\ callbacks' = [o \in PluginObjects |->
                        IF o \in os THEN Append(callbacks[o], callback) ELSE callbacks[o]]

\* PluginManager.register_plugin
RegisterPlugin(o, replace) ==
    /\ IF Has(plugins, PluginName(o)) /\ ~replace
       THEN UNCHANGED <<plugins, callbacks>>
       ELSE plugins' = Put(plugins, PluginName(o), o) /\ Called({o}, "on_enable")
    /\ plugOp' = "register_plugin"
    /\ UNCHANGED <<enabled, evars, pvars, rvars, lvars, uvars, kvars, cvars>>

\* PluginManager.unregister_plugin
UnregisterPlugin(name) ==
    /\ IF ~Has(plugins, name)
       THEN UNCHANGED <<plugins, callbacks>>
       ELSE Called({plugins[name]}, "on_disable") /\ plugins' = Del(plugins, name)
    /\ plugOp' = "unregister_plugin"
    /\ UNCHANGED <<enabled, evars, pvars, rvars, lvars, uvars, kvars, cvars>>

\* PluginManager.enable_plugin
EnablePlugin(name) ==
    /\ IF Has(plugins, name) /\ ~enabled[plugins[name]]
       THEN /\ enabled' = [enabled EXCEPT ![plugins[name]] = TRUE]
            /\ Called({plugins[name]}, "on_enable")
       ELSE UNCHANGED <<enabled, callbacks>>
    /\ plugOp' = "enable_plugin"
    /\ UNCHANGED <<plugins, evars, pvars, rvars, lvars, uvars, kvars, cvars>>

\* PluginManager.disable_plugin
DisablePlugin(name) ==
    /\ IF Has(plugins, name) /\ enabled[plugins[name]]
       THEN /\ enabled' = [enabled EXCEPT ![plugins[name]] = FALSE]
            /\ Called({plugins[name]}, "on_disable")
       ELSE UNCHANGED <<enabled, callbacks>>
    /\ plugOp' = "disable_plugin"
    /\ UNCHANGED <<plugins, evars, pvars, rvars, lvars, uvars, kvars, cvars>>

\* PluginManager.clear_plugins: unregister_plugin for every name
ClearPlugins ==
    /\ Called({ plugins[name] : name \in DOMAIN plugins }, "on_disable")
    /\ plugins' = EmptyDict
    /\ plugOp' = "clear_plugins"
    /\ UNCHANGED <<enabled, evars, pvars, rvars, lvars, uvars, kvars, cvars>>

NextPlugins ==
    \/ \E o \in PluginObjects, replace \in BOOLEAN : RegisterPlugin(o, replace)
    \/ \E name \in PluginNames : UnregisterPlugin(name)
    \/ \E name \in PluginNames : EnablePlugin(name)
    \/ \E name \in PluginNames : DisablePlugin(name)
    \/ ClearPlugins

SpecPlugins == InitPlugins /\ [][NextPlugins]_vars

\* The callbacks alternate, on_enable first.
Alternate(log) ==
    \A i \in 1..Len(log) : log[i] = (IF i % 2 = 1 THEN "on_enable" ELSE "on_disable")

\* C30: the on_enable and on_disable callbacks a plugin receives alternate,
\* starting with on_enable, and once it has received one its enabled flag is
\* true exactly when the last one was on_enable.
C30_CallbacksAlternate ==
    \A o \in PluginObjects :
        /\ Alternate(callbacks[o])
        /\ callbacks[o] # <<>> =>
              (enabled[o] <=> callbacks[o][Len(callbacks[o])] = "on_enable")

\* A plugin that was registered, disabled and unregistered received
\* on_disable twice in a row.
DisabledTwice ==
    /\ plugOp = "unregister_plugin" /\ ~Has(plugins, "a")
    /\ callbacks[1] = <<"on_enable", "on_disable", "on_disable">>

\* A plugin registered while its flag is false received on_enable and is
\* still not enabled.
EnabledCallbackButFlagFalse ==
    \E o \in PluginObjects :
        /\ plugOp = "register_plugin" /\ Has(plugins, PluginName(o)) /\ plugins[PluginName(o)] = o
        /\ callbacks[o] = <<"on_enable", "on_disable", "on_enable">>
        /\ ~enabled[o]

====
